---- MODULE Spec2Model ----
(***************************************************************************)
(* A model of the Lox tree-walking interpreter: the scanner (scanner.rs),   *)
(* the parser (parser.rs), the lexical resolver (resolver.rs), the         *)
(* environment chain (environment.rs), the runtime values (value.rs) and   *)
(* the evaluator (interpreter.rs).                                         *)
(*                                                                         *)
(* A program is an AST (ast.rs).  Resolver::run annotates every Variable,  *)
(* Assign, This and Super node with a scope depth; the annotations are     *)
(* kept in a table keyed by the node's id.  Interpreter::run then executes *)
(* the top-level declarations one after the other.  The evaluator is a     *)
(* big-step function over a heap of frames, classes and objects; every     *)
(* Rc<RefCell<..>> cell of the program is an index into that heap.         *)
(***************************************************************************)
EXTENDS Integers, Sequences, FiniteSets, TLC

VARIABLES prog, phase, pc, depths, uses, heap, outcome, scanner, parser, main

vars == <<prog, phase, pc, depths, uses, heap, outcome, scanner, parser, main>>

\* The state of the resolver and evaluator, and the state of the front end.
back == <<prog, phase, pc, depths, uses, heap, outcome>>

front == <<scanner, parser>>

----------------------------------------------------------------------------
(* Bounds of the model *)

MaxVal == 2

MaxClock == 1

\* The source has at most MaxLine lines.
MaxLine == 2

----------------------------------------------------------------------------
(* Finite maps: HashMap<String, _> *)

EmptyMap == [x \in {} |-> 0]

Put(map, key, value) == (key :> value) @@ map

Has(map, key) == key \in DOMAIN map

----------------------------------------------------------------------------
(* ast.rs: the syntax tree *)

None == -1

NoExpr == [k |-> "None"]

Literal(value) == [k |-> "Literal", value |-> value]

Variable(id, name) == [k |-> "Variable", id |-> id, name |-> name]

Assign(id, name, value) == [k |-> "Assign", id |-> id, name |-> name, value |-> value]

Binary(left, op, right) == [k |-> "Binary", op |-> op, left |-> left, right |-> right]

Logical(left, op, right) == [k |-> "Logical", op |-> op, left |-> left, right |-> right]

Unary(op, expr) == [k |-> "Unary", op |-> op, expr |-> expr]

Grouping(expr) == [k |-> "Grouping", expr |-> expr]

Call(callee, arguments) == [k |-> "Call", callee |-> callee, arguments |-> arguments]

Get(object, name) == [k |-> "Get", object |-> object, name |-> name]

Set(object, name, value) == [k |-> "Set", object |-> object, name |-> name, value |-> value]

This(id) == [k |-> "This", id |-> id, name |-> "this"]

Super(id, method) == [k |-> "Super", id |-> id, name |-> "super", method |-> method]

VarDeclaration(name, initializer) ==
    [k |-> "VarDeclaration", name |-> name, initializer |-> initializer]

FunDeclaration(id, name, line, params, body) ==
    [k |-> "FunDeclaration", id |-> id, name |-> name, line |-> line,
     params |-> params, body |-> body]

Class(name, superclass, methods) ==
    [k |-> "Class", name |-> name, superclass |-> superclass, methods |-> methods]

Block(declarations) == [k |-> "Block", declarations |-> declarations]

ExprStatement(expr) == [k |-> "ExprStatement", expr |-> expr]

If(cond, true_branch, else_branch) ==
    [k |-> "If", cond |-> cond, true_branch |-> true_branch, else_branch |-> else_branch]

While(cond, body) == [k |-> "While", cond |-> cond, body |-> body]

For(initializer, cond, increment, body) ==
    [k |-> "For", initializer |-> initializer, cond |-> cond,
     increment |-> increment, body |-> body]

PrintStmt(expr) == [k |-> "Print", expr |-> expr]

Return(expr) == [k |-> "Return", expr |-> expr]

----------------------------------------------------------------------------
(* value.rs: runtime values.  A Value is a tagged record; Object and Class *)
(* carry the index of their cell, a user function carries its declaration, *)
(* the frame it closes over and is_initializer.                            *)

Nil == [t |-> "Nil", v |-> 0]

Boolean(b) == [t |-> "Boolean", v |-> b]

Number(n) == [t |-> "Number", v |-> n]

StringV(s) == [t |-> "StringV", v |-> s]

ObjectV(o) == [t |-> "Object", v |-> o]

ClassV(c) == [t |-> "Class", v |-> c]

Builtin == [t |-> "Builtin", v |-> 0]

new_user_defined(declaration, environment, is_initializer) ==
    [declaration |-> declaration, environment |-> environment,
     is_initializer |-> is_initializer]

FunctionV(user_defined) == [t |-> "Function", v |-> user_defined]

new_function(declaration, environment, is_initializer) ==
    FunctionV(new_user_defined(declaration, environment, is_initializer))

is_truthy(value) ==
    IF value.t = "Boolean" THEN value.v
    ELSE IF value.t = "Nil" THEN FALSE
    ELSE TRUE

----------------------------------------------------------------------------
(* resolver.rs: the scope stack is a VecDeque whose front is element 1.    *)
(* The resolver state is the stack, the depth table it writes into the AST *)
(* nodes, and the first error (err = "" while the result is Ok).           *)

Orders(n) ==
    {p \in [1..n -> 1..n] : \A i, j \in 1..n : p[i] = p[j] => i = j}

\* The order in which HashMap::values_mut yields a class's methods.
MethodOrder(perm, methods) ==
    LET idx == SelectSeq(perm, LAMBDA i : i <= Len(methods))
    IN  [i \in 1..Len(methods) |-> methods[idx[i]]]

Resolver_new(ids, perm) ==
    [scopes |-> <<>>,
     depths |-> [i \in ids |-> None],
     uses   |-> [i \in ids |-> [name |-> "", stack |-> <<>>]],
     perm   |-> perm,
     err    |-> ""]

ResolverOk(rs) == rs.err = ""

Resolver_error(rs, message) == [rs EXCEPT !.err = message]

begin_scope(rs) == [rs EXCEPT !.scopes = <<EmptyMap>> \o @]

push_front(rs, scope) == [rs EXCEPT !.scopes = <<scope>> \o @]

end_scope(rs) == [rs EXCEPT !.scopes = IF Len(@) = 0 THEN @ ELSE Tail(@)]

declare(rs, name) ==
    IF Len(rs.scopes) = 0 THEN rs
    ELSE [rs EXCEPT !.scopes[1] = Put(@, name, "Declared")]

define(rs, name) ==
    IF Len(rs.scopes) = 0 THEN rs
    ELSE [rs EXCEPT !.scopes[1] = Put(@, name, "Defined")]

RECURSIVE resolve_local_break(_, _, _, _)
\* The loop of resolve_local with a break at the first match.
resolve_local_break(scopes, name, i, depth) ==
    IF i > Len(scopes) THEN depth
    ELSE IF Has(scopes[i], name) THEN i - 1
    ELSE resolve_local_break(scopes, name, i + 1, depth)

RECURSIVE resolve_local_loop(_, _, _, _)
\* for (i, scope) in self.scopes.iter().enumerate(): every scope that
\* contains the name overwrites depth; the loop has no break.
resolve_local_loop(scopes, name, i, depth) ==
    IF i > Len(scopes) THEN depth
    ELSE resolve_local_loop(scopes, name, i + 1,
                            IF Has(scopes[i], name) THEN i - 1 ELSE depth)

resolve_local(rs, id, name) ==
    [rs EXCEPT
        !.depths[id] = resolve_local_loop(rs.scopes, name, 1, @),
        !.uses[id] = [name |-> name,
                      stack |-> [i \in 1..Len(rs.scopes) |-> DOMAIN rs.scopes[i]]]]

Resolver_visit_var_expr(rs, id, name) ==
    IF Len(rs.scopes) > 0 /\ Has(rs.scopes[1], name) /\ rs.scopes[1][name] = "Declared"
    THEN Resolver_error(rs, "Can't read local variable in its own initializer")
    ELSE resolve_local(rs, id, name)

RECURSIVE Resolver_visit_expr(_, _)
RECURSIVE Resolver_visit_exprs(_, _, _)
RECURSIVE Resolver_visit_declaration(_, _)
RECURSIVE Resolver_visit_declarations(_, _, _)
RECURSIVE Resolver_visit_fun_declaration(_, _)
RECURSIVE Resolver_visit_methods(_, _, _)

Resolver_visit_exprs(rs, exprs, i) ==
    IF i > Len(exprs) \/ ~ResolverOk(rs) THEN rs
    ELSE Resolver_visit_exprs(Resolver_visit_expr(rs, exprs[i]), exprs, i + 1)

Resolver_visit_expr(rs, e) ==
    CASE e.k = "None" -> rs
      [] e.k = "Assign" ->
            LET r1 == Resolver_visit_expr(rs, e.value)
            IN  IF ResolverOk(r1) THEN resolve_local(r1, e.id, e.name) ELSE r1
      [] e.k \in {"Binary", "Logical"} ->
            Resolver_visit_exprs(rs, <<e.left, e.right>>, 1)
      [] e.k = "Call" ->
            Resolver_visit_exprs(rs, <<e.callee>> \o e.arguments, 1)
      [] e.k = "Get" -> Resolver_visit_expr(rs, e.object)
      [] e.k \in {"Grouping", "Unary"} -> Resolver_visit_expr(rs, e.expr)
      [] e.k = "Literal" -> rs
      [] e.k = "Set" -> Resolver_visit_exprs(rs, <<e.object, e.value>>, 1)
      [] e.k \in {"This", "Super"} -> resolve_local(rs, e.id, e.name)
      [] e.k = "Variable" -> Resolver_visit_var_expr(rs, e.id, e.name)

Resolver_visit_var_declaration(rs, d) ==
    LET r1 == Resolver_visit_expr(declare(rs, d.name), d.initializer)
    IN  IF ResolverOk(r1) THEN define(r1, d.name) ELSE r1

Resolver_visit_declarations(rs, declarations, i) ==
    IF i > Len(declarations) \/ ~ResolverOk(rs) THEN rs
    ELSE Resolver_visit_declarations(
            Resolver_visit_declaration(rs, declarations[i]), declarations, i + 1)

Resolver_visit_fun_declaration(rs, f) ==
    LET r1 == begin_scope(declare(rs, f.name))
        r2 == [r1 EXCEPT !.scopes[1] =
                  [n \in {f.params[i] : i \in 1..Len(f.params)} |-> "Defined"]]
        r3 == Resolver_visit_declarations(r2, f.body, 1)
    IN  IF ResolverOk(r3) THEN define(end_scope(r3), f.name) ELSE r3

Resolver_visit_methods(rs, methods, i) ==
    IF i > Len(methods) \/ ~ResolverOk(rs) THEN rs
    ELSE Resolver_visit_methods(
            Resolver_visit_fun_declaration(rs, methods[i]), methods, i + 1)

\* visit_class without the comparison of the superclass name with the name
\* of the class.
Resolver_visit_class_unchecked(rs, c) ==
    LET has_super == c.superclass.k # "None"
        r0 == IF ~has_super THEN rs
              ELSE resolve_local(rs, c.superclass.id, c.superclass.name)
        r1 == define(r0, c.name)
        r2 == IF has_super THEN push_front(r1, "super" :> "Defined") ELSE r1
        r3 == push_front(r2, "this" :> "Defined")
        r4 == Resolver_visit_methods(r3, MethodOrder(rs.perm, c.methods), 1)
        r5 == end_scope(r4)
    IN  IF ~ResolverOk(r0) THEN r0
        ELSE IF ~ResolverOk(r4) THEN r4
        ELSE IF has_super THEN end_scope(r5) ELSE r5

Resolver_visit_class(rs, c) ==
    LET has_super == c.superclass.k # "None"
        r0 == IF ~has_super THEN rs
              ELSE IF c.superclass.name = c.name
                   THEN Resolver_error(rs, "A class cannot inherit from itself.")
                   ELSE resolve_local(rs, c.superclass.id, c.superclass.name)
        r1 == define(r0, c.name)
        r2 == IF has_super THEN push_front(r1, "super" :> "Defined") ELSE r1
        r3 == push_front(r2, "this" :> "Defined")
        r4 == Resolver_visit_methods(r3, MethodOrder(rs.perm, c.methods), 1)
        r5 == end_scope(r4)
    IN  IF ~ResolverOk(r0) THEN r0
        ELSE IF ~ResolverOk(r4) THEN r4
        ELSE IF has_super THEN end_scope(r5) ELSE r5

Resolver_visit_for_statement(rs, s) ==
    LET r1 == Resolver_visit_declaration(begin_scope(rs), s.initializer)
        r2 == Resolver_visit_exprs(r1, <<s.cond, s.increment>>, 1)
        r3 == IF ResolverOk(r2) THEN Resolver_visit_declaration(r2, s.body) ELSE r2
    IN  IF ResolverOk(r3) THEN end_scope(r3) ELSE r3

Resolver_visit_if_statement(rs, s) ==
    LET r1 == Resolver_visit_expr(rs, s.cond)
        r2 == IF ResolverOk(r1) THEN Resolver_visit_declaration(r1, s.true_branch) ELSE r1
    IN  IF ResolverOk(r2) THEN Resolver_visit_declaration(r2, s.else_branch) ELSE r2

Resolver_visit_while_statement(rs, s) ==
    LET r1 == Resolver_visit_expr(rs, s.cond)
    IN  IF ResolverOk(r1) THEN Resolver_visit_declaration(r1, s.body) ELSE r1

Resolver_visit_block(rs, declarations) ==
    LET r1 == Resolver_visit_declarations(begin_scope(rs), declarations, 1)
    IN  IF ResolverOk(r1) THEN end_scope(r1) ELSE r1

\* visit_declaration and visit_statement: a Declaration::Statement is stored
\* as the statement itself; an absent statement or expression resolves to
\* nothing.
Resolver_visit_declaration(rs, d) ==
    CASE d.k = "Class" -> Resolver_visit_class(rs, d)
      [] d.k = "FunDeclaration" -> Resolver_visit_fun_declaration(rs, d)
      [] d.k = "VarDeclaration" -> Resolver_visit_var_declaration(rs, d)
      [] d.k = "Block" -> Resolver_visit_block(rs, d.declarations)
      [] d.k \in {"ExprStatement", "Print", "Return"} -> Resolver_visit_expr(rs, d.expr)
      [] d.k = "If" -> Resolver_visit_if_statement(rs, d)
      [] d.k = "For" -> Resolver_visit_for_statement(rs, d)
      [] d.k = "While" -> Resolver_visit_while_statement(rs, d)
      [] OTHER -> Resolver_visit_expr(rs, d)

Resolver_run(rs, ast) == Resolver_visit_declarations(rs, ast, 1)

----------------------------------------------------------------------------
(* The heap.  frames[i] is a Node of environment.rs (parent = 0 for None);  *)
(* an Environment is the index of its current Node.  classes[i] is an      *)
(* IClassStruct, objects[i] an ObjectStruct.  trace is the history of the  *)
(* evaluator events the properties below speak about; now is the value     *)
(* the clock builtin returns during the current step.                      *)

Globals == 1

Interpreter_new ==
    [frames  |-> <<[parent |-> 0, scope |-> ("clock" :> Builtin)]>>,
     classes |-> <<>>,
     objects |-> <<>>,
     trace   |-> <<>>,
     now     |-> 0]

Trace(h, event) == [h EXCEPT !.trace = Append(@, event)]

\* let v = ...; the value is computed once and named in what follows.
Let(v, K(_)) == K(v)

\* InterpResult / StatementResult: Ok(value), Err(InterpError::Error),
\* Err(InterpError::Return(value)), or a panic that aborts the evaluator.
OkR(h, value) == [h |-> h, s |-> "ok", v |-> value]

ErrR(h, message) == [h |-> h, s |-> "err", v |-> StringV(message)]

ReturnR(h, value) == [h |-> h, s |-> "return", v |-> value]

PanicR(h, what) == [h |-> h, s |-> "panic", v |-> StringV(what)]

\* The `?` operator: a result that is not Ok is returned as it is.
Try(r, K(_)) == IF r.s # "ok" THEN r ELSE K(r)

----------------------------------------------------------------------------
(* environment.rs *)

new_block(h, env) ==
    [h EXCEPT !.frames = Append(@, [parent |-> env, scope |-> EmptyMap])]

Environment_insert(h, env, key, value) ==
    [h EXCEPT !.frames[env].scope = Put(@, key, value)]

bind_this(h, env, object) == Environment_insert(h, env, "this", ObjectV(object))

declare_and_assign(h, env, name, value) == Environment_insert(h, env, name, value)

RECURSIVE ancestor(_, _, _)
\* 0 stands for the panic of parent.as_ref().unwrap() on a missing parent.
ancestor(h, node, depth) ==
    IF node = 0 \/ depth = 0 THEN node
    ELSE ancestor(h, h.frames[node].parent, depth - 1)

get_at(h, env, depth, name) ==
    Let(ancestor(h, env, depth), LAMBDA node :
        IF node = 0 THEN PanicR(h, "ancestor")
        ELSE IF ~Has(h.frames[node].scope, name) THEN PanicR(h, "get_at")
        ELSE OkR(h, h.frames[node].scope[name]))

\* insert(name, value).unwrap(): the value is stored, then a fresh key panics.
assign_at(h, env, depth, name, value) ==
    Let(ancestor(h, env, depth), LAMBDA node :
        IF node = 0 THEN PanicR(h, "ancestor")
        ELSE IF ~Has(h.frames[node].scope, name)
             THEN PanicR(Environment_insert(h, node, name, value), "assign_at")
        ELSE OkR(Environment_insert(h, node, name, value), value))

Environment_get(h, env, name) ==
    IF Has(h.frames[env].scope, name) THEN OkR(h, h.frames[env].scope[name])
    ELSE ErrR(h, "Variable not found.")

\* Environment::assign creating the binding when the name is not defined.
Environment_assign_create(h, env, name, value) ==
    OkR(Environment_insert(h, env, name, value), value)

Environment_assign(h, env, name, value) ==
    IF Has(h.frames[env].scope, name)
    THEN OkR(Environment_insert(h, env, name, value), value)
    ELSE ErrR(h, "Variable not found in scope.")

RECURSIVE bind_arguments(_, _, _, _, _)
\* zip(arguments, parameters), declared left to right
bind_arguments(h, env, arguments, parameters, i) ==
    IF i > Len(arguments) \/ i > Len(parameters) THEN h
    ELSE bind_arguments(declare_and_assign(h, env, parameters[i], arguments[i]),
                        env, arguments, parameters, i + 1)

----------------------------------------------------------------------------
(* Equality of values: #[derive(PartialEq)] on Value, ObjectStruct and     *)
(* IClassStruct, with Rc<RefCell<T>> comparing the contents of the cells,  *)
(* and the hand-written impls for UserDefined and FunDeclarationStruct.    *)

\* self.name == other.name on the declarations' name tokens (an Identifier
\* token: its content and its line).
FunDeclarationStruct_eq(a, b) == a.name = b.name /\ a.line = b.line

UserDefined_eq(a, b) == FunDeclarationStruct_eq(a.declaration, b.declaration)

RECURSIVE IClassStruct_eq(_, _, _)
IClassStruct_eq(h, c1, c2) ==
    LET a == h.classes[c1]
        b == h.classes[c2]
    IN  /\ a.name = b.name
        /\ DOMAIN a.methods = DOMAIN b.methods
        /\ \A m \in DOMAIN a.methods : UserDefined_eq(a.methods[m], b.methods[m])
        /\ (a.superclass = 0) = (b.superclass = 0)
        /\ (a.superclass # 0 => IClassStruct_eq(h, a.superclass, b.superclass))

RECURSIVE Value_eq(_, _, _)
Value_eq(h, a, b) ==
    IF a.t # b.t THEN FALSE
    ELSE CASE a.t \in {"Nil", "Builtin"} -> TRUE
           [] a.t \in {"Boolean", "Number", "StringV"} -> a.v = b.v
           [] a.t = "Function" -> UserDefined_eq(a.v, b.v)
           [] a.t = "Class" -> IClassStruct_eq(h, a.v, b.v)
           [] a.t = "Object" ->
                LET x == h.objects[a.v]
                    y == h.objects[b.v]
                IN  /\ IClassStruct_eq(h, x.class, y.class)
                    /\ DOMAIN x.fields = DOMAIN y.fields
                    /\ \A f \in DOMAIN x.fields : Value_eq(h, x.fields[f], y.fields[f])

----------------------------------------------------------------------------
(* interpreter.rs: classes, objects and methods *)

\* find_method without the walk up the superclass chain.
find_method_own(h, class, content) ==
    IF Has(h.classes[class].methods, content)
    THEN [found |-> TRUE, method |-> h.classes[class].methods[content]]
    ELSE [found |-> FALSE, method |-> Nil]

RECURSIVE find_method(_, _, _)
find_method(h, class, content) ==
    IF Has(h.classes[class].methods, content)
    THEN [found |-> TRUE, method |-> h.classes[class].methods[content]]
    ELSE IF h.classes[class].superclass # 0
         THEN find_method(h, h.classes[class].superclass, content)
         ELSE [found |-> FALSE, method |-> Nil]

new_object(h, class) ==
    [h EXCEPT !.objects = Append(@, [class |-> class, fields |-> EmptyMap])]

ObjectStruct_get(h, object, identifier) ==
    IF Has(h.objects[object].fields, identifier)
    THEN OkR(h, h.objects[object].fields[identifier])
    ELSE Let(find_method(h, h.objects[object].class, identifier), LAMBDA m :
         IF ~m.found THEN ErrR(h, "Property not found on object.")
         ELSE Let(new_block(h, m.method.environment), LAMBDA h1 :
              Let(FunctionV(new_user_defined(m.method.declaration, Len(h1.frames),
                                             m.method.is_initializer)), LAMBDA f :
                  OkR(Trace(bind_this(h1, Len(h1.frames), object),
                            [ev |-> "get_method", object |-> object,
                             function |-> f]), f))))

generate_methods(class_methods, env) ==
    [name \in {class_methods[i].name : i \in 1..Len(class_methods)} |->
        new_user_defined(
            class_methods[CHOOSE i \in 1..Len(class_methods) : class_methods[i].name = name],
            env, name = "init")]

new_i_class(h, methods, name, superclass) ==
    [h EXCEPT !.classes =
        Append(@, [name |-> name, methods |-> methods, superclass |-> superclass])]

----------------------------------------------------------------------------
(* interpreter.rs: the evaluator.  Every visit_* takes the heap and the    *)
(* environment and returns the heap and the result; `?` is the early       *)
(* return of a result that is not Ok.                                      *)

RECURSIVE Interpreter_visit_expr(_, _, _)
RECURSIVE visit_arguments(_, _, _, _, _)
RECURSIVE Interpreter_visit_declaration(_, _, _)
RECURSIVE Interpreter_visit_declarations(_, _, _, _)
RECURSIVE finish_call(_, _, _, _)
RECURSIVE while_loop(_, _, _)
RECURSIVE for_loop(_, _, _, _)

Unit(r) == IF r.s = "ok" THEN OkR(r.h, Nil) ELSE r

\* The content of an expression's token (call.callee.token.content).
TokenContent(e) ==
    IF e.k \in {"Variable", "Assign", "Get", "Set", "This", "Super"} THEN e.name
    ELSE IF e.k \in {"Call", "Grouping"} THEN ")"
    ELSE ""

get_global(h, name) == Environment_get(h, Globals, name)

assign_global(h, name, value) == Environment_assign(h, Globals, name, value)

Interpreter_visit_var_expr(h, env, e) ==
    IF depths[e.id] # None THEN get_at(h, env, depths[e.id], e.name)
    ELSE get_global(h, e.name)

Interpreter_visit_this(h, env, e) ==
    IF depths[e.id] = None
    THEN ErrR(h, "Cannot access this in global context.")
    ELSE Try(get_at(h, env, depths[e.id], e.name), LAMBDA value :
         OkR(Trace(h, [ev |-> "this", env |-> env, value |-> value.v]), value.v))

Interpreter_visit_assign_expr(h, env, e) ==
    Try(Interpreter_visit_expr(h, env, e.value), LAMBDA value :
        IF depths[e.id] # None
        THEN assign_at(value.h, env, depths[e.id], e.name, value.v)
        ELSE assign_global(value.h, e.name, value.v))

Number_operation(h, op, l, r) ==
    IF l.t = "Number" /\ r.t = "Number"
    THEN OkR(h, CASE op = "-" -> Number(l.v - r.v)
                  [] op = "*" -> Number(l.v * r.v)
                  [] op = "<=" -> Boolean(l.v <= r.v)
                  [] op = "<" -> Boolean(l.v < r.v)
                  [] op = ">=" -> Boolean(l.v >= r.v)
                  [] op = ">" -> Boolean(l.v > r.v))
    ELSE ErrR(h, "Expected number in expression.")

\* The match on the operator's token in visit_binary_expr.  Number stands
\* for the f64 values that are integers; Slash, whose results leave them, is
\* not an operator of the programs below.
binary_operation(h, op, l, r) ==
    CASE op = "+" ->
            IF l.t = "StringV"
            THEN IF r.t = "StringV" THEN OkR(h, StringV(l.v \o r.v))
                 ELSE ErrR(h, "Expected string in concatenation operation.")
            ELSE IF l.t = "Number"
            THEN IF r.t = "Number" THEN OkR(h, Number(l.v + r.v))
                 ELSE ErrR(h, "Expected number in expression.")
            ELSE ErrR(h, "Invalid operation.")
      [] op \in {"==", "!="} ->
            Let(Value_eq(h, l, r), LAMBDA eq :
                OkR(Trace(h, [ev |-> "eq", left |-> l, right |-> r, equal |-> eq]),
                    Boolean(IF op = "==" THEN eq ELSE ~eq)))
      [] OTHER -> Number_operation(h, op, l, r)

\* visit_binary_expr with the left operand of `+` checked before the right
\* operand is evaluated.
Interpreter_visit_binary_expr_early(h, env, e) ==
    Try(Interpreter_visit_expr(h, env, e.left), LAMBDA left_v :
        IF e.op = "+" /\ left_v.v.t \notin {"StringV", "Number"}
        THEN ErrR(left_v.h, "Invalid operation.")
        ELSE Try(Interpreter_visit_expr(left_v.h, env, e.right), LAMBDA right_v :
                 binary_operation(right_v.h, e.op, left_v.v, right_v.v)))

Interpreter_visit_binary_expr(h, env, e) ==
    Try(Interpreter_visit_expr(h, env, e.left), LAMBDA left_v :
    Try(Interpreter_visit_expr(left_v.h, env, e.right), LAMBDA right_v :
        binary_operation(right_v.h, e.op, left_v.v, right_v.v)))

Interpreter_visit_unary(h, env, e) ==
    Try(Interpreter_visit_expr(h, env, e.expr), LAMBDA value :
        IF e.op = "-"
        THEN IF value.v.t = "Number" THEN OkR(value.h, Number(0 - value.v.v))
             ELSE ErrR(value.h, "Expected number in expression.")
        ELSE OkR(value.h, Boolean(~is_truthy(value.v))))

\* visit_logical with the right operand evaluated whatever the left one is.
Interpreter_visit_logical_eager(h, env, e) ==
    Try(Interpreter_visit_expr(h, env, e.left), LAMBDA left_v :
    Try(Interpreter_visit_expr(left_v.h, env, e.right), LAMBDA right_v :
        OkR(right_v.h,
            Boolean(IF e.op = "and" THEN is_truthy(left_v.v) /\ is_truthy(right_v.v)
                    ELSE is_truthy(left_v.v) \/ is_truthy(right_v.v)))))

Interpreter_visit_logical(h, env, e) ==
    Try(Interpreter_visit_expr(h, env, e.left), LAMBDA left_v :
        IF e.op = "and"
        THEN IF ~is_truthy(left_v.v) THEN OkR(left_v.h, Boolean(FALSE))
             ELSE Try(Interpreter_visit_expr(left_v.h, env, e.right), LAMBDA right_v :
                      OkR(right_v.h, Boolean(is_truthy(right_v.v))))
        ELSE IF is_truthy(left_v.v) THEN OkR(left_v.h, Boolean(TRUE))
             ELSE Try(Interpreter_visit_expr(left_v.h, env, e.right), LAMBDA right_v :
                      OkR(right_v.h, Boolean(is_truthy(right_v.v)))))

Interpreter_visit_get(h, env, e) ==
    Try(Interpreter_visit_expr(h, env, e.object), LAMBDA value :
        IF value.v.t = "Object" THEN ObjectStruct_get(value.h, value.v.v, e.name)
        ELSE ErrR(value.h, "Field access should be preceded by object."))

Interpreter_visit_set(h, env, e) ==
    Try(Interpreter_visit_expr(h, env, e.object), LAMBDA left_value :
        IF left_value.v.t # "Object"
        THEN ErrR(left_value.h, "Can only set properties of objects.")
        ELSE Try(Interpreter_visit_expr(left_value.h, env, e.value), LAMBDA right_value :
                 OkR([right_value.h EXCEPT !.objects[left_value.v.v].fields =
                          Put(@, e.name, right_value.v)],
                     right_value.v)))

\* The method found on the superclass, after `this` has been bound in the
\* current environment.
super_method(h, env, instance, superclass, method) ==
    Let(find_method(h, superclass, method), LAMBDA m :
        IF ~m.found THEN ErrR(h, "Method not found on 'super'.")
        ELSE Let(bind_this(h, env, instance), LAMBDA h1 :
                 OkR(Trace(h1, [ev |-> "super", instance |-> instance,
                                function |-> FunctionV(m.method), env |-> env,
                                before |-> DOMAIN h.frames[env].scope,
                                after |-> DOMAIN h1.frames[env].scope]),
                     FunctionV(m.method))))

Interpreter_visit_super(h, env, e) ==
    IF depths[e.id] = None THEN PanicR(h, "unwrap")
    ELSE Try(get_at(h, env, depths[e.id], e.name), LAMBDA superclass_value :
         IF depths[e.id] = 0 THEN PanicR(h, "depth - 1")
         ELSE Try(get_at(h, env, depths[e.id] - 1, "this"), LAMBDA this :
              IF this.v.t # "Object" \/ superclass_value.v.t # "Class"
              THEN PanicR(h, "unreachable")
              ELSE super_method(h, env, this.v.v, superclass_value.v.v, e.method)))

visit_arguments(h, env, arguments, i, acc) ==
    IF i > Len(arguments) THEN [h |-> h, s |-> "ok", v |-> Nil, vals |-> acc]
    ELSE Let(Interpreter_visit_expr(h, env, arguments[i]), LAMBDA r :
             IF r.s # "ok" THEN [h |-> r.h, s |-> r.s, v |-> r.v, vals |-> acc]
             ELSE visit_arguments(r.h, env, arguments, i + 1, Append(acc, r.v)))

\* The match at the end of finish_call with Err(Return(value)) passed on to
\* the caller instead of being turned into Ok(value).
call_result_unwind(rc, result) ==
    CASE result.s = "ok" ->
            IF rc.is_initializer THEN get_at(result.h, rc.environment, 0, "this")
            ELSE OkR(result.h, Nil)
      [] OTHER -> result

\* The match on the result of the body at the end of finish_call.
call_result(rc, result) ==
    CASE result.s = "ok" ->
            IF rc.is_initializer THEN get_at(result.h, rc.environment, 0, "this")
            ELSE OkR(result.h, Nil)
      [] result.s = "return" -> OkR(result.h, result.v)
      [] OTHER -> result

\* finish_call with the new frame made a child of the caller's environment
\* instead of the function's captured one.
finish_call_dynamic(h, call, calling_environment, function) ==
    Let(visit_arguments(h, calling_environment, call.arguments, 1, <<>>), LAMBDA a :
        IF a.s # "ok" THEN [h |-> a.h, s |-> a.s, v |-> a.v]
        ELSE IF function.t = "Builtin"
             THEN IF TokenContent(call.callee) = "clock" THEN OkR(a.h, Number(a.h.now))
                  ELSE PanicR(a.h, "unreachable")
        ELSE IF Len(a.vals) # Len(function.v.declaration.params)
             THEN ErrR(a.h, "Arity mismatch")
        ELSE Let(new_block(a.h, calling_environment), LAMBDA h1 :
             Let(Interpreter_visit_declarations(
                     bind_arguments(h1, Len(h1.frames), a.vals,
                                    function.v.declaration.params, 1),
                     Len(h1.frames), function.v.declaration.body, 1), LAMBDA result :
                 call_result(function.v, result))))

\* The receiver an initializer was called on: `this` of its environment.
bound_this(h, rc) ==
    IF Has(h.frames[rc.environment].scope, "this")
    THEN h.frames[rc.environment].scope["this"]
    ELSE Nil

\* The environment.maybe_get_at(1, "this") of the source only prints; the
\* parent of the frame just created always exists.
finish_call(h, call, calling_environment, function) ==
    Let(visit_arguments(h, calling_environment, call.arguments, 1, <<>>), LAMBDA a :
        IF a.s # "ok" THEN [h |-> a.h, s |-> a.s, v |-> a.v]
        ELSE IF function.t = "Builtin"
             THEN IF TokenContent(call.callee) = "clock" THEN OkR(a.h, Number(a.h.now))
                  ELSE PanicR(a.h, "unreachable")
        ELSE IF Len(a.vals) # Len(function.v.declaration.params)
             THEN ErrR(a.h, "Arity mismatch")
        ELSE Let(new_block(a.h, function.v.environment), LAMBDA h0 :
             Let(Interpreter_visit_declarations(
                     bind_arguments(Trace(h0, [ev |-> "call", frame |-> Len(h0.frames),
                                               function |-> function]),
                                    Len(h0.frames), a.vals,
                                    function.v.declaration.params, 1),
                     Len(h0.frames), function.v.declaration.body, 1), LAMBDA result :
             Let(call_result(function.v, result), LAMBDA final :
                 IF function.v.is_initializer /\ final.s = "ok"
                 THEN OkR(Trace(final.h, [ev |-> "init",
                                          this |-> bound_this(a.h, function.v),
                                          returned |-> result.s = "return",
                                          value |-> final.v]),
                          final.v)
                 ELSE final))))

call_class(h, class) ==
    Let(new_object(h, class), LAMBDA h1 : OkR(h1, ObjectV(Len(h1.objects))))

\* Value::Class with an init method: the object is created, `this` is bound
\* in the initializer's environment and the initializer is called.
call_init(h, env, e, class, user_defined) ==
    Let(new_object(h, class), LAMBDA h1 :
    Try(finish_call(bind_this(h1, user_defined.environment, Len(h1.objects)),
                    e, env, FunctionV(user_defined)), LAMBDA r :
        OkR(Trace(r.h, [ev |-> "construct", object |-> Len(h1.objects),
                        value |-> r.v]),
            r.v)))

Interpreter_visit_call(h, env, e) ==
    Try(Interpreter_visit_expr(h, env, e.callee), LAMBDA value :
        IF value.v.t \in {"Function", "Builtin"}
        THEN finish_call(value.h, e, env, value.v)
        ELSE IF value.v.t = "Class"
             THEN IF Has(value.h.classes[value.v.v].methods, "init")
                  THEN call_init(value.h, env, e, value.v.v,
                                 value.h.classes[value.v.v].methods["init"])
                  ELSE call_class(value.h, value.v.v)
        ELSE ErrR(value.h, "Can only call functions and classes."))

\* Token::visit: a literal's token gives its value.
Token_visit(h, e) == OkR(h, e.value)

Interpreter_visit_expr(h, env, e) ==
    CASE e.k = "Assign" -> Interpreter_visit_assign_expr(h, env, e)
      [] e.k = "Binary" -> Interpreter_visit_binary_expr(h, env, e)
      [] e.k = "Call" -> Interpreter_visit_call(h, env, e)
      [] e.k = "Literal" -> Token_visit(h, e)
      [] e.k = "Logical" -> Interpreter_visit_logical(h, env, e)
      [] e.k = "Get" -> Interpreter_visit_get(h, env, e)
      [] e.k = "Grouping" -> Interpreter_visit_expr(h, env, e.expr)
      [] e.k = "Set" -> Interpreter_visit_set(h, env, e)
      [] e.k = "This" -> Interpreter_visit_this(h, env, e)
      [] e.k = "Unary" -> Interpreter_visit_unary(h, env, e)
      [] e.k = "Variable" -> Interpreter_visit_var_expr(h, env, e)
      [] e.k = "Super" -> Interpreter_visit_super(h, env, e)

Interpreter_visit_class(h, env, c) ==
    IF c.superclass.k # "None"
    THEN Try(Interpreter_visit_var_expr(h, env, c.superclass), LAMBDA superclass_value :
         Let(new_block(superclass_value.h, env), LAMBDA h1 :
         Let(Environment_insert(h1, Len(h1.frames), "super", superclass_value.v),
             LAMBDA h2 :
             IF superclass_value.v.t # "Class"
             THEN ErrR(h2, "Can only inherit from classes")
             ELSE Let(new_i_class(h2, generate_methods(c.methods, Len(h1.frames)),
                                  c.name, superclass_value.v.v), LAMBDA h3 :
                      OkR(declare_and_assign(h3, env, c.name, ClassV(Len(h3.classes))),
                          Nil)))))
    ELSE Let(new_i_class(h, generate_methods(c.methods, env), c.name, 0), LAMBDA h4 :
             OkR(declare_and_assign(h4, env, c.name, ClassV(Len(h4.classes))), Nil))

\* visit_fun_declaration with the closure given a copy of the current frame
\* instead of the frame itself.
Interpreter_visit_fun_declaration_copy(h, env, f) ==
    Let([h EXCEPT !.frames = Append(@, h.frames[env])], LAMBDA h1 :
        OkR(declare_and_assign(h1, env, f.name, new_function(f, Len(h1.frames), FALSE)),
            Nil))

Interpreter_visit_fun_declaration(h, env, f) ==
    OkR(declare_and_assign(h, env, f.name, new_function(f, env, FALSE)), Nil)

\* An optional expression: its value, or the given one when it is absent.
visit_option_expr(h, env, e, absent) ==
    IF e.k # "None" THEN Interpreter_visit_expr(h, env, e) ELSE OkR(h, absent)

Interpreter_visit_var_declaration(h, env, d) ==
    Try(visit_option_expr(h, env, d.initializer, Nil), LAMBDA value :
        OkR(declare_and_assign(value.h, env, d.name, value.v), Nil))

Interpreter_visit_declarations(h, env, declarations, i) ==
    IF i > Len(declarations) THEN OkR(h, Nil)
    ELSE Try(Interpreter_visit_declaration(h, env, declarations[i]), LAMBDA r :
             Interpreter_visit_declarations(r.h, env, declarations, i + 1))

Interpreter_visit_block(h, env, declarations) ==
    Let(new_block(h, env), LAMBDA h1 :
        Interpreter_visit_declarations(h1, Len(h1.frames), declarations, 1))

\* Statement::While: the loop from the evaluation of its condition on.
while_loop(h, env, s) ==
    Try(Interpreter_visit_expr(h, env, s.cond), LAMBDA bool_value :
        IF ~is_truthy(bool_value.v) THEN OkR(bool_value.h, Nil)
        ELSE Try(Interpreter_visit_declaration(bool_value.h, env, s.body), LAMBDA body :
                 while_loop(body.h, env, s)))

\* The while loop of visit_for, entered with the current bool_value.
for_loop(h, env, s, bool_value) ==
    IF ~is_truthy(bool_value) THEN OkR(h, Nil)
    ELSE Try(Interpreter_visit_declaration(h, env, s.body), LAMBDA body :
         Try(visit_option_expr(body.h, env, s.increment, Nil), LAMBDA increment :
         Try(visit_option_expr(increment.h, env, s.cond, bool_value), LAMBDA cond :
             for_loop(cond.h, env, s, cond.v))))

Interpreter_visit_initializer(h, env, initializer) ==
    IF initializer.k = "None" THEN OkR(h, Nil)
    ELSE IF initializer.k = "VarDeclaration"
         THEN Interpreter_visit_var_declaration(h, env, initializer)
    ELSE Interpreter_visit_expr(h, env, initializer)

\* The condition is evaluated once with its value dropped, then once more
\* for the first bool_value.
Interpreter_visit_for(h, env, s) ==
    Try(Interpreter_visit_initializer(h, env, s.initializer), LAMBDA initializer :
    Try(visit_option_expr(initializer.h, env, s.cond, Nil), LAMBDA first :
    Try(visit_option_expr(first.h, env, s.cond, Boolean(TRUE)), LAMBDA bool_value :
        for_loop(bool_value.h, env, s, bool_value.v))))

Interpreter_visit_if(h, env, s) ==
    Try(Interpreter_visit_expr(h, env, s.cond), LAMBDA bool_value :
        IF is_truthy(bool_value.v)
        THEN Interpreter_visit_declaration(bool_value.h, env, s.true_branch)
        ELSE IF s.else_branch.k # "None"
             THEN Interpreter_visit_declaration(bool_value.h, env, s.else_branch)
        ELSE OkR(bool_value.h, Nil))

Interpreter_visit_return(h, env, s) ==
    Try(visit_option_expr(h, env, s.expr, Nil), LAMBDA value :
        ReturnR(value.h, value.v))

Interpreter_visit_print(h, env, s) ==
    Try(Interpreter_visit_expr(h, env, s.expr), LAMBDA value :
        OkR(Trace(value.h, [ev |-> "print", value |-> value.v]), Nil))

\* Statement::For: the loop runs in a new block.
for_statement(h, env, s) ==
    Let(new_block(h, env), LAMBDA h1 : Interpreter_visit_for(h1, Len(h1.frames), s))

\* visit_declaration and visit_statement
Interpreter_visit_declaration(h, env, d) ==
    CASE d.k = "Class" -> Interpreter_visit_class(h, env, d)
      [] d.k = "FunDeclaration" -> Interpreter_visit_fun_declaration(h, env, d)
      [] d.k = "VarDeclaration" -> Interpreter_visit_var_declaration(h, env, d)
      [] d.k = "ExprStatement" -> Unit(Interpreter_visit_expr(h, env, d.expr))
      [] d.k = "Print" -> Interpreter_visit_print(h, env, d)
      [] d.k = "Block" -> Interpreter_visit_block(h, env, d.declarations)
      [] d.k = "If" -> Interpreter_visit_if(h, env, d)
      [] d.k = "While" -> while_loop(h, env, d)
      [] d.k = "For" -> for_statement(h, env, d)
      [] d.k = "Return" -> Interpreter_visit_return(h, env, d)

----------------------------------------------------------------------------
(* The programs.  Each is the AST the parser builds for the source text    *)
(* given above it; n is the number of Variable/Assign/This/Super nodes,    *)
(* which are numbered 1..n, and p holds the values the source is           *)
(* parametrised with.  The programs of the repository's tests (main.rs,    *)
(* mod tests) keep the tests' names.                                       *)

Vals == 0..MaxVal

\* The source lines a declaration's name token can be on.
Lines == 1..MaxLine

Program(name, p, n, ast) == [name |-> name, p |-> p, n |-> n, ast |-> ast]

Num(n) == Literal(Number(n))

Var(name, initializer) == VarDeclaration(name, initializer)

Fun(id, name, params, body) == FunDeclaration(id, name, id, params, body)

Stmt(expr) == ExprStatement(expr)

\* var a = v1; var b = v2; var c = a + b;
test_arithmetic(v1, v2) ==
    Program("test_arithmetic", <<v1, v2>>, 2,
        <<Var("a", Num(v1)), Var("b", Num(v2)),
          Var("c", Binary(Variable(1, "a"), "+", Variable(2, "b")))>>)

\* var a = 1; { var a = 2; }
test_block ==
    Program("test_block", <<>>, 0,
        <<Var("a", Num(1)), Block(<<Var("a", Num(2))>>)>>)

\* var a = 1; if (1 == 1) a = 2;
test_if ==
    Program("test_if", <<>>, 1,
        <<Var("a", Num(1)),
          If(Grouping(Binary(Num(1), "==", Num(1))), Stmt(Assign(1, "a", Num(2))), NoExpr)>>)

\* var a = 1; while (a < 3) a = a + 1;
test_while ==
    Program("test_while", <<>>, 3,
        <<Var("a", Num(1)),
          While(Binary(Variable(1, "a"), "<", Num(3)),
                Stmt(Assign(2, "a", Binary(Variable(3, "a"), "+", Num(1)))))>>)

\* var j = 0; for (var i = 0; i < n; i = i + 1) j = j + i;
test_for(n) ==
    Program("test_for", <<n>>, 6,
        <<Var("j", Num(0)),
          For(Var("i", Num(0)),
              Binary(Variable(1, "i"), "<", Num(n)),
              Assign(2, "i", Binary(Variable(3, "i"), "+", Num(1))),
              Stmt(Assign(4, "j", Binary(Variable(5, "j"), "+", Variable(6, "i")))))>>)

\* var a = 0; if (false and true) a = 1;
test_logical_and ==
    Program("test_logical_and", <<>>, 1,
        <<Var("a", Num(0)),
          If(Grouping(Logical(Literal(Boolean(FALSE)), "and", Literal(Boolean(TRUE)))),
             Stmt(Assign(1, "a", Num(1))), NoExpr)>>)

\* var a = 0; if (false or true) a = 1;
test_logical_or ==
    Program("test_logical_or", <<>>, 1,
        <<Var("a", Num(0)),
          If(Grouping(Logical(Literal(Boolean(FALSE)), "or", Literal(Boolean(TRUE)))),
             Stmt(Assign(1, "a", Num(1))), NoExpr)>>)

\* var a = clock(); var b = clock() - a; print b;
test_call ==
    Program("test_call", <<>>, 4,
        <<Var("a", Call(Variable(1, "clock"), <<>>)),
          Var("b", Binary(Call(Variable(2, "clock"), <<>>), "-", Variable(3, "a"))),
          PrintStmt(Variable(4, "b"))>>)

\* var a = 1; fun foo() { fun bar() { a = 2; } bar(); } fun bar() { } foo();
test_nested_call ==
    Program("test_nested_call", <<>>, 3,
        <<Var("a", Num(1)),
          Fun(1, "foo", <<>>,
              <<Fun(2, "bar", <<>>, <<Stmt(Assign(1, "a", Num(2)))>>),
                Stmt(Call(Variable(2, "bar"), <<>>))>>),
          Fun(3, "bar", <<>>, <<>>),
          Stmt(Call(Variable(3, "foo"), <<>>))>>)

\* var a = 1; fun make_a() { var a = 2; { var a = 3; return; } }
test_nesting_function ==
    Program("test_nesting_function", <<>>, 0,
        <<Var("a", Num(1)),
          Fun(1, "make_a", <<>>,
              <<Var("a", Num(2)), Block(<<Var("a", Num(3)), Return(NoExpr)>>)>>)>>)

\* fun calc_b() { var a = v1; { var a = v2; return a; } } var b = calc_b();
test_nesting_function2(v1, v2) ==
    Program("test_nesting_function2", <<v1, v2>>, 2,
        <<Fun(1, "calc_b", <<>>,
              <<Var("a", Num(v1)),
                Block(<<Var("a", Num(v2)), Return(Variable(1, "a"))>>)>>),
          Var("b", Call(Variable(2, "calc_b"), <<>>))>>)

\* class Foo { method() { } } var foo = Foo(); foo.method();
test_simple_class ==
    Program("test_simple_class", <<>>, 2,
        <<Class("Foo", NoExpr, <<Fun(1, "method", <<>>, <<>>)>>),
          Var("foo", Call(Variable(1, "Foo"), <<>>)),
          Stmt(Call(Get(Variable(2, "foo"), "method"), <<>>))>>)

\* class Foo { bar() { class Foo { bar2() { } } var foo = Foo(); foo.bar2(); } }
\* var foo = Foo(); foo.bar();
test_class ==
    Program("test_class", <<>>, 4,
        <<Class("Foo", NoExpr,
                <<Fun(1, "bar", <<>>,
                      <<Class("Foo", NoExpr, <<Fun(2, "bar2", <<>>, <<>>)>>),
                        Var("foo", Call(Variable(1, "Foo"), <<>>)),
                        Stmt(Call(Get(Variable(2, "foo"), "bar2"), <<>>))>>)>>),
          Var("foo", Call(Variable(3, "Foo"), <<>>)),
          Stmt(Call(Get(Variable(4, "foo"), "bar"), <<>>))>>)

\* class Foo { bar() { return v; } } var foo = Foo(); var a = foo.bar();
test_method(v) ==
    Program("test_method", <<v>>, 2,
        <<Class("Foo", NoExpr, <<Fun(1, "bar", <<>>, <<Return(Num(v))>>)>>),
          Var("foo", Call(Variable(1, "Foo"), <<>>)),
          Var("a", Call(Get(Variable(2, "foo"), "bar"), <<>>))>>)

\* class Foo { } var foo = Foo(); foo.bar = v; var a = foo.bar;
test_object_assign2(v) ==
    Program("test_object_assign2", <<v>>, 3,
        <<Class("Foo", NoExpr, <<>>),
          Var("foo", Call(Variable(1, "Foo"), <<>>)),
          Stmt(Set(Variable(2, "foo"), "bar", Num(v))),
          Var("a", Get(Variable(3, "foo"), "bar"))>>)

\* class Foo { f() { this.bar = v; return this.bar; } }
\* var foo = Foo(); var a = foo.f();
test_this(v) ==
    Program("test_this", <<v>>, 4,
        <<Class("Foo", NoExpr,
                <<Fun(1, "f", <<>>,
                      <<Stmt(Set(This(1), "bar", Num(v))),
                        Return(Get(This(2), "bar"))>>)>>),
          Var("foo", Call(Variable(3, "Foo"), <<>>)),
          Var("a", Call(Get(Variable(4, "foo"), "f"), <<>>))>>)

\* class Foo { init() { this.a = v1; } do_thing() { return this.a; } }
\* var foo1 = Foo(); var foo2 = Foo(); foo2.a = v2;
\* foo2.do_thing = foo1.do_thing; var a = foo2.do_thing();
test_this2(v1, v2) ==
    Program("test_this2", <<v1, v2>>, 8,
        <<Class("Foo", NoExpr,
                <<Fun(1, "init", <<>>, <<Stmt(Set(This(1), "a", Num(v1)))>>),
                  Fun(2, "do_thing", <<>>, <<Return(Get(This(2), "a"))>>)>>),
          Var("foo1", Call(Variable(3, "Foo"), <<>>)),
          Var("foo2", Call(Variable(4, "Foo"), <<>>)),
          Stmt(Set(Variable(5, "foo2"), "a", Num(v2))),
          Stmt(Set(Variable(6, "foo2"), "do_thing", Get(Variable(7, "foo1"), "do_thing"))),
          Var("a", Call(Get(Variable(8, "foo2"), "do_thing"), <<>>))>>)

\* class Foo { do_thing() { return this.a; } }
\* var foo = Foo(); foo.a = v; var a = foo.do_thing();
test_this3(v) ==
    Program("test_this3", <<v>>, 4,
        <<Class("Foo", NoExpr, <<Fun(1, "do_thing", <<>>, <<Return(Get(This(1), "a"))>>)>>),
          Var("foo", Call(Variable(2, "Foo"), <<>>)),
          Stmt(Set(Variable(3, "foo"), "a", Num(v))),
          Var("a", Call(Get(Variable(4, "foo"), "do_thing"), <<>>))>>)

\* fun create_closure() { var a = v; fun closure() { return a; } return closure; }
\* var my_closure = create_closure(); var a = my_closure();
test_closure(v) ==
    Program("test_closure", <<v>>, 4,
        <<Fun(1, "create_closure", <<>>,
              <<Var("a", Num(v)),
                Fun(2, "closure", <<>>, <<Return(Variable(1, "a"))>>),
                Return(Variable(2, "closure"))>>),
          Var("my_closure", Call(Variable(3, "create_closure"), <<>>)),
          Var("a", Call(Variable(4, "my_closure"), <<>>))>>)

\* class A { init() { this.field = v; } } var a = A(); var b = a.field;
test_init1(v) ==
    Program("test_init1", <<v>>, 3,
        <<Class("A", NoExpr,
                <<Fun(1, "init", <<>>, <<Stmt(Set(This(1), "field", Num(v)))>>)>>),
          Var("a", Call(Variable(2, "A"), <<>>)),
          Var("b", Get(Variable(3, "a"), "field"))>>)

\* class A { init() { this.field = v; } }
\* var a = A(); var object = a.init(); var b = a.field + object.field;
test_init2(v) ==
    Program("test_init2", <<v>>, 5,
        <<Class("A", NoExpr,
                <<Fun(1, "init", <<>>, <<Stmt(Set(This(1), "field", Num(v)))>>)>>),
          Var("a", Call(Variable(2, "A"), <<>>)),
          Var("object", Call(Get(Variable(3, "a"), "init"), <<>>)),
          Var("b", Binary(Get(Variable(4, "a"), "field"), "+",
                          Get(Variable(5, "object"), "field")))>>)

\* class B { do_thing() { return v; } } class A < B { }
\* var a = A(); var c = a.do_thing();
test_super_class(v) ==
    Program("test_super_class", <<v>>, 3,
        <<Class("B", NoExpr, <<Fun(1, "do_thing", <<>>, <<Return(Num(v))>>)>>),
          Class("A", Variable(1, "B"), <<>>),
          Var("a", Call(Variable(2, "A"), <<>>)),
          Var("c", Call(Get(Variable(3, "a"), "do_thing"), <<>>))>>)

\* class B { do_thing() { return v; } }
\* class A < B { do_thing() { return super.do_thing() + 1; } }
\* var a = A(); var c = a.do_thing();
test_super_call(v) ==
    Program("test_super_call", <<v>>, 4,
        <<Class("B", NoExpr, <<Fun(1, "do_thing", <<>>, <<Return(Num(v))>>)>>),
          Class("A", Variable(1, "B"),
                <<Fun(2, "do_thing", <<>>,
                      <<Return(Binary(Call(Super(2, "do_thing"), <<>>), "+", Num(1)))>>)>>),
          Var("a", Call(Variable(3, "A"), <<>>)),
          Var("c", Call(Get(Variable(4, "a"), "do_thing"), <<>>))>>)

\* var m = v; class A { m() { return m; } } var a = A(); var x = a.m();
method_name_read(v) ==
    Program("method_name_read", <<v>>, 3,
        <<Var("m", Num(v)),
          Class("A", NoExpr, <<Fun(1, "m", <<>>, <<Return(Variable(1, "m"))>>)>>),
          Var("a", Call(Variable(2, "A"), <<>>)),
          Var("x", Call(Get(Variable(3, "a"), "m"), <<>>))>>)

\* var r; { var x = v; class A { init() { this.f = x; } } var a = A(); r = a.f; }
init_in_block(v) ==
    Program("init_in_block", <<v>>, 5,
        <<Var("r", NoExpr),
          Block(<<Var("x", Num(v)),
                  Class("A", NoExpr,
                        <<Fun(1, "init", <<>>,
                              <<Stmt(Set(This(1), "f", Variable(2, "x")))>>)>>),
                  Var("a", Call(Variable(3, "A"), <<>>)),
                  Stmt(Assign(4, "r", Get(Variable(5, "a"), "f")))>>)>>)

\* var go = true;
\* class A { init() { if go { go = false; A(); } this.f = v; } }
\* var a = A();
nested_init(v) ==
    Program("nested_init", <<v>>, 6,
        <<Var("go", Literal(Boolean(TRUE))),
          Class("A", NoExpr,
                <<Fun(1, "init", <<>>,
                      <<If(Variable(1, "go"),
                           Block(<<Stmt(Assign(2, "go", Literal(Boolean(FALSE)))),
                                   Stmt(Call(Variable(3, "A"), <<>>))>>),
                           NoExpr),
                        Stmt(Set(This(4), "f", Num(v)))>>)>>),
          Var("a", Call(Variable(5, "A"), <<>>))>>)

\* class A { init() { this.f = v; return; } } var a = A();
init_return(v) ==
    Program("init_return", <<v>>, 2,
        <<Class("A", NoExpr,
                <<Fun(1, "init", <<>>,
                      <<Stmt(Set(This(1), "f", Num(v))), Return(NoExpr)>>)>>),
          Var("a", Call(Variable(2, "A"), <<>>))>>)

\* class A { init() { this.f = v; } reset() { return; } }
\* var a = A(); var b = a.init(); var c = a.reset();
init_again(v) ==
    Program("init_again", <<v>>, 4,
        <<Class("A", NoExpr,
                <<Fun(1, "init", <<>>, <<Stmt(Set(This(1), "f", Num(v)))>>),
                  Fun(2, "reset", <<>>, <<Return(NoExpr)>>)>>),
          Var("a", Call(Variable(2, "A"), <<>>)),
          Var("b", Call(Get(Variable(3, "a"), "init"), <<>>)),
          Var("c", Call(Get(Variable(4, "a"), "reset"), <<>>))>>)

\* class B { who() { return this.tag; } }
\* class A < B { who() { return super.who(); } }
\* var a = A(); a.tag = v; var r = a.who();
super_this(v) ==
    Program("super_this", <<v>>, 6,
        <<Class("B", NoExpr, <<Fun(1, "who", <<>>, <<Return(Get(This(1), "tag"))>>)>>),
          Class("A", Variable(2, "B"),
                <<Fun(2, "who", <<>>,
                      <<Return(Call(Super(3, "who"), <<>>))>>)>>),
          Var("a", Call(Variable(4, "A"), <<>>)),
          Stmt(Set(Variable(5, "a"), "tag", Num(v))),
          Var("r", Call(Get(Variable(6, "a"), "who"), <<>>))>>)

\* class A { m() { class B { who() { return this.tag; } }
\*                 var b = B(); b.tag = v2; return b.who(); } }
\* var a = A(); a.tag = v1; var r = a.m();
nested_this(v1, v2) ==
    Program("nested_this", <<v1, v2>>, 7,
        <<Class("A", NoExpr,
                <<Fun(1, "m", <<>>,
                      <<Class("B", NoExpr,
                              <<Fun(2, "who", <<>>, <<Return(Get(This(1), "tag"))>>)>>),
                        Var("b", Call(Variable(2, "B"), <<>>)),
                        Stmt(Set(Variable(3, "b"), "tag", Num(v2))),
                        Return(Call(Get(Variable(4, "b"), "who"), <<>>))>>)>>),
          Var("a", Call(Variable(5, "A"), <<>>)),
          Stmt(Set(Variable(6, "a"), "tag", Num(v1))),
          Var("r", Call(Get(Variable(7, "a"), "m"), <<>>))>>)

\* fun make() { var a = v; fun inc() { a = a + 1; return a; } a = a + 1; return inc; }
\* var c1 = make(); var c2 = make(); var r1 = c1(); var r2 = c1(); var r3 = c2();
closure_counter(v) ==
    Program("closure_counter", <<v>>, 12,
        <<Fun(1, "make", <<>>,
              <<Var("a", Num(v)),
                Fun(2, "inc", <<>>,
                    <<Stmt(Assign(1, "a", Binary(Variable(2, "a"), "+", Num(1)))),
                      Return(Variable(3, "a"))>>),
                Stmt(Assign(4, "a", Binary(Variable(5, "a"), "+", Num(1)))),
                Return(Variable(6, "inc"))>>),
          Var("c1", Call(Variable(7, "make"), <<>>)),
          Var("c2", Call(Variable(8, "make"), <<>>)),
          Var("r1", Call(Variable(9, "c1"), <<>>)),
          Var("r2", Call(Variable(10, "c1"), <<>>)),
          Var("r3", Call(Variable(11, "c2"), <<>>))>>)

\* var x = vg; var r1; var r2; var r3;
\* { [var x = vb;]  fun f() { return x; }  r1 = f();
\*   { var x = vc; r2 = f(); }  [var x = vb;]  r3 = f(); }
\* with the block's own `var x` before the declaration of f when early, and
\* after the second call when not.
lexical(early, vg, vb, vc) ==
    Program("lexical", <<IF early THEN 1 ELSE 0, vg, vb, vc>>, 7,
        <<Var("x", Num(vg)), Var("r1", NoExpr), Var("r2", NoExpr), Var("r3", NoExpr),
          Block((IF early THEN <<Var("x", Num(vb))>> ELSE <<>>)
                \o <<Fun(1, "f", <<>>, <<Return(Variable(1, "x"))>>),
                     Stmt(Assign(2, "r1", Call(Variable(3, "f"), <<>>))),
                     Block(<<Var("x", Num(vc)),
                             Stmt(Assign(4, "r2", Call(Variable(5, "f"), <<>>)))>>)>>
                \o (IF early THEN <<>> ELSE <<Var("x", Num(vb))>>)
                \o <<Stmt(Assign(6, "r3", Call(Variable(7, "f"), <<>>)))>>)>>)

\* class A { } var a = A(); var b = A(); a.f = v1; b.f = v2;
\* var same = a == a; var other = a == b; var differ = a != b;
eq_objects(v1, v2) ==
    Program("eq_objects", <<v1, v2>>, 10,
        <<Class("A", NoExpr, <<>>),
          Var("a", Call(Variable(1, "A"), <<>>)),
          Var("b", Call(Variable(2, "A"), <<>>)),
          Stmt(Set(Variable(3, "a"), "f", Num(v1))),
          Stmt(Set(Variable(4, "b"), "f", Num(v2))),
          Var("same", Binary(Variable(5, "a"), "==", Variable(6, "a"))),
          Var("other", Binary(Variable(7, "a"), "==", Variable(8, "b"))),
          Var("differ", Binary(Variable(9, "a"), "!=", Variable(10, "b")))>>)

\* class A { } var first = A; class A { } var same = first == first;
\* var other = first == A;
eq_classes ==
    Program("eq_classes", <<>>, 5,
        <<Class("A", NoExpr, <<>>),
          Var("first", Variable(1, "A")),
          Class("A", NoExpr, <<>>),
          Var("same", Binary(Variable(2, "first"), "==", Variable(3, "first"))),
          Var("other", Binary(Variable(4, "first"), "==", Variable(5, "A")))>>)

\* fun f() { } var first = f; fun f() { }     (the declarations on the lines
\* var same = first == first; var other = first == f;      line1 and line2)
\* var mixed = first == clock; var builtin = clock == clock;
eq_functions(line1, line2) ==
    Program("eq_functions", <<line1, line2>>, 9,
        <<FunDeclaration(1, "f", line1, <<>>, <<>>),
          Var("first", Variable(1, "f")),
          FunDeclaration(2, "f", line2, <<>>, <<>>),
          Var("same", Binary(Variable(2, "first"), "==", Variable(3, "first"))),
          Var("other", Binary(Variable(4, "first"), "==", Variable(5, "f"))),
          Var("mixed", Binary(Variable(6, "first"), "==", Variable(7, "clock"))),
          Var("builtin", Binary(Variable(8, "clock"), "==", Variable(9, "clock")))>>)

\* class A { } var a = A(); var n = v;
\* var r1 = a == A; var r2 = a == n; var r3 = n == nil; var r4 = A == clock;
\* var r5 = n == v;
eq_variants(v) ==
    Program("eq_variants", <<v>>, 9,
        <<Class("A", NoExpr, <<>>),
          Var("a", Call(Variable(1, "A"), <<>>)),
          Var("n", Num(v)),
          Var("r1", Binary(Variable(2, "a"), "==", Variable(3, "A"))),
          Var("r2", Binary(Variable(4, "a"), "==", Variable(5, "n"))),
          Var("r3", Binary(Variable(6, "n"), "==", Literal(Nil))),
          Var("r4", Binary(Variable(7, "A"), "==", Variable(8, "clock"))),
          Var("r5", Binary(Variable(9, "n"), "==", Num(v)))>>)

\* The operand expressions of plus_operands: a literal of each variant the
\* parser has a literal for, and the names of a function, a class and the
\* call that makes an object.
Operands == 1..9

Operand(kind, id) ==
    CASE kind = 1 -> Num(1)
      [] kind = 2 -> Num(2)
      [] kind = 3 -> Literal(StringV("a"))
      [] kind = 4 -> Literal(StringV("b"))
      [] kind = 5 -> Literal(Boolean(TRUE))
      [] kind = 6 -> Literal(Nil)
      [] kind = 7 -> Variable(id, "clock")
      [] kind = 8 -> Variable(id, "A")
      [] kind = 9 -> Call(Variable(id, "A"), <<>>)

\* class A {} var o; var l = <left>; var r = <right>; var c = (o = l) + (o = r);
plus_operands(left, right) ==
    LET nl == IF left >= 7 THEN 1 ELSE 0
        nr == nl + (IF right >= 7 THEN 1 ELSE 0)
    IN  Program("plus_operands", <<left, right>>, nr + 4,
            <<Class("A", NoExpr, <<>>), Var("o", NoExpr),
              Var("l", Operand(left, nl)), Var("r", Operand(right, nr)),
              Var("c", Binary(Grouping(Assign(nr + 1, "o", Variable(nr + 2, "l"))),
                              "+",
                              Grouping(Assign(nr + 3, "o", Variable(nr + 4, "r")))))>>)

\* var x = vg; fun f() { var x = vf; { var x = vb; x = x + 1; } return x; }
\* var r = f();
block_shadow(vg, vf, vb) ==
    Program("block_shadow", <<vg, vf, vb>>, 4,
        <<Var("x", Num(vg)),
          Fun(1, "f", <<>>,
              <<Var("x", Num(vf)),
                Block(<<Var("x", Num(vb)),
                        Stmt(Assign(1, "x", Binary(Variable(2, "x"), "+", Num(1))))>>),
                Return(Variable(3, "x"))>>),
          Var("r", Call(Variable(4, "f"), <<>>))>>)

\* var n = 0; var c = 0; var k = 0; var b = 0;
\* for (n = n + 1; (c = c + 1) <= v; k = k + 1) b = b + 1;
for_count(v) ==
    Program("for_count", <<v>>, 8,
        <<Var("n", Num(0)), Var("c", Num(0)), Var("k", Num(0)), Var("b", Num(0)),
          For(Assign(1, "n", Binary(Variable(2, "n"), "+", Num(1))),
              Binary(Grouping(Assign(3, "c", Binary(Variable(4, "c"), "+", Num(1)))),
                     "<=", Num(v)),
              Assign(5, "k", Binary(Variable(6, "k"), "+", Num(1))),
              Stmt(Assign(7, "b", Binary(Variable(8, "b"), "+", Num(1)))))>>)

\* x = v;
assign_undefined(v) ==
    Program("assign_undefined", <<v>>, 1, <<Stmt(Assign(1, "x", Num(v)))>>)

\* fun f() { x = v; } f();
assign_undefined_in_fun(v) ==
    Program("assign_undefined_in_fun", <<v>>, 2,
        <<Fun(1, "f", <<>>, <<Stmt(Assign(1, "x", Num(v)))>>),
          Stmt(Call(Variable(2, "f"), <<>>))>>)

\* var r = x;
read_undefined ==
    Program("read_undefined", <<>>, 1, <<Var("r", Variable(1, "x"))>>)

\* var x; x = v; var r = x;
assign_defined(v) ==
    Program("assign_defined", <<v>>, 2,
        <<Var("x", NoExpr), Stmt(Assign(1, "x", Num(v))), Var("r", Variable(2, "x"))>>)

\* var late = 0; var after = 0;
\* fun f() {
\*   while (true) {
\*     if (true) { for (var i = 0; i < 1; i = i + 1) { return v; } }
\*     late = 1;
\*   }
\*   late = 1;
\* }
\* fun g() { var x = f(); after = 1; return x + 1; }
\* fun h() { { return; } late = 1; }
\* var r = g(); var n = h();
return_nested(v) ==
    Program("return_nested", <<v>>, 11,
        <<Var("late", Num(0)), Var("after", Num(0)),
          Fun(1, "f", <<>>,
              <<While(Literal(Boolean(TRUE)),
                      Block(<<If(Literal(Boolean(TRUE)),
                                 Block(<<For(Var("i", Num(0)),
                                             Binary(Variable(1, "i"), "<", Num(1)),
                                             Assign(2, "i", Binary(Variable(3, "i"), "+",
                                                                   Num(1))),
                                             Block(<<Return(Num(v))>>))>>),
                                 NoExpr),
                              Stmt(Assign(4, "late", Num(1)))>>)),
                Stmt(Assign(5, "late", Num(1)))>>),
          Fun(2, "g", <<>>,
              <<Var("x", Call(Variable(6, "f"), <<>>)),
                Stmt(Assign(7, "after", Num(1))),
                Return(Binary(Variable(8, "x"), "+", Num(1)))>>),
          Fun(3, "h", <<>>,
              <<Block(<<Return(NoExpr)>>), Stmt(Assign(9, "late", Num(1)))>>),
          Var("r", Call(Variable(10, "g"), <<>>)),
          Var("n", Call(Variable(11, "h"), <<>>))>>)

\* class A { m() { return 1; } n() { return 2; } }
\* class B < A { m() { return 3; } }
\* var o = B();  o.field = v;  var r = o.name;
\* (the assignment is left out when field is "")
property_read(field, name, v) ==
    Program("property_read", <<field, name, v>>, 4,
        <<Class("A", NoExpr, <<Fun(1, "m", <<>>, <<Return(Num(1))>>),
                               Fun(2, "n", <<>>, <<Return(Num(2))>>)>>),
          Class("B", Variable(1, "A"), <<Fun(3, "m", <<>>, <<Return(Num(3))>>)>>),
          Var("o", Call(Variable(2, "B"), <<>>))>>
        \o (IF field = "" THEN <<>>
            ELSE <<Stmt(Set(Variable(3, "o"), field, Num(v)))>>)
        \o <<Var("r", Get(Variable(4, "o"), name))>>)

\* super.m;
super_outside_class ==
    Program("super_outside_class", <<>>, 1, <<Stmt(Super(1, "m"))>>)

\* class A { m() { return super.m; } } var a = A(); var r = a.m();
super_without_superclass ==
    Program("super_without_superclass", <<>>, 3,
        <<Class("A", NoExpr, <<Fun(1, "m", <<>>, <<Return(Super(1, "m"))>>)>>),
          Var("a", Call(Variable(2, "A"), <<>>)),
          Var("r", Call(Get(Variable(3, "a"), "m"), <<>>))>>)

\* class A < A { }                    (nested: class A { } { class A < A { } })
inherit_self(nested) ==
    Program("inherit_self", <<nested>>, 1,
        IF nested
        THEN <<Class("A", NoExpr, <<>>), Block(<<Class("A", Variable(1, "A"), <<>>)>>)>>
        ELSE <<Class("A", Variable(1, "A"), <<>>)>>)

\* class A { } class B < A { } class A < B { }
class_rebound ==
    Program("class_rebound", <<>>, 2,
        <<Class("A", NoExpr, <<>>),
          Class("B", Variable(1, "A"), <<>>),
          Class("A", Variable(2, "B"), <<>>)>>)

\* return v;      { return v; }      while (true) { return; }
return_top_level(shape, v) ==
    Program("return_top_level", <<shape, v>>, 0,
        CASE shape = "alone" -> <<Return(Num(v))>>
          [] shape = "block" -> <<Block(<<Return(Num(v))>>)>>
          [] shape = "while" ->
                <<While(Literal(Boolean(TRUE)), Block(<<Return(NoExpr)>>))>>)

\* class A { init() { } }  var a = A();
\* with sub:       class B { } class A < B { init() { } }  var a = A();
\* without init:   the class has no method
construct(init, sub) ==
    Program("construct", <<init, sub>>, 2,
        (IF sub THEN <<Class("B", NoExpr, <<>>)>> ELSE <<>>)
        \o <<Class("A", IF sub THEN Variable(1, "B") ELSE NoExpr,
                   IF init THEN <<Fun(1, "init", <<>>, <<>>)>> ELSE <<>>),
             Var("a", Call(Variable(2, "A"), <<>>))>>)

\* The values the operands of short_circuit return: nil, false, true, 0, "".
LogicalOperands == 1..5

LogicalOperand(kind) ==
    CASE kind = 1 -> Literal(Nil)
      [] kind = 2 -> Literal(Boolean(FALSE))
      [] kind = 3 -> Literal(Boolean(TRUE))
      [] kind = 4 -> Num(0)
      [] kind = 5 -> Literal(StringV(""))

\* var nl = 0; var nr = 0; var first = 0;
\* fun fl() { nl = nl + 1; return <left>; }
\* fun fr() { nr = nr + 1; first = nl; return <right>; }
\* var x = fl() <op> fr();
short_circuit(op, left, right) ==
    Program("short_circuit", <<op, left, right>>, 8,
        <<Var("nl", Num(0)), Var("nr", Num(0)), Var("first", Num(0)),
          Fun(1, "fl", <<>>,
              <<Stmt(Assign(1, "nl", Binary(Variable(2, "nl"), "+", Num(1)))),
                Return(LogicalOperand(left))>>),
          Fun(2, "fr", <<>>,
              <<Stmt(Assign(3, "nr", Binary(Variable(4, "nr"), "+", Num(1)))),
                Stmt(Assign(5, "first", Variable(6, "nl"))),
                Return(LogicalOperand(right))>>),
          Var("x", Logical(Call(Variable(7, "fl"), <<>>), op,
                           Call(Variable(8, "fr"), <<>>)))>>)

----------------------------------------------------------------------------
(* The pipeline of main.rs run / test_utils.rs test_run after parsing:     *)
(* Resolver::run over the AST, then the loop of Interpreter::run, one      *)
(* top-level declaration per step, in the globals environment.             *)

MaxMethods == 2

\* The front end is not part of a run that starts from an AST.
NoScanner == [status |-> "none"]

NoParser == [status |-> "none"]

\* main is not part of a run that starts from an AST or in the front end.
NoMain == [pc |-> "none"]

Start(program) ==
    /\ prog = program
    /\ phase = "parsed"
    /\ pc = 1
    /\ depths = [i \in 1..program.n |-> None]
    /\ uses = [i \in 1..program.n |-> [name |-> "", stack |-> <<>>]]
    /\ heap = Interpreter_new
    /\ outcome = [s |-> "ok", v |-> Nil]
    /\ scanner = NoScanner
    /\ parser = NoParser
    /\ main = NoMain

Init ==
    \/ \E v1, v2 \in Vals : Start(test_arithmetic(v1, v2))
    \/ Start(test_block)
    \/ Start(test_if)
    \/ Start(test_while)
    \/ \E n \in Vals : Start(test_for(n))
    \/ Start(test_logical_and)
    \/ Start(test_logical_or)
    \/ Start(test_call)
    \/ Start(test_nested_call)
    \/ Start(test_nesting_function)
    \/ \E v1, v2 \in Vals : Start(test_nesting_function2(v1, v2))
    \/ Start(test_simple_class)
    \/ Start(test_class)
    \/ \E v \in Vals : Start(test_method(v))
    \/ \E v \in Vals : Start(test_object_assign2(v))
    \/ \E v \in Vals : Start(test_this(v))
    \/ \E v1, v2 \in Vals : Start(test_this2(v1, v2))
    \/ \E v \in Vals : Start(test_this3(v))
    \/ \E v \in Vals : Start(test_closure(v))
    \/ \E v \in Vals : Start(test_init1(v))
    \/ \E v \in Vals : Start(test_init2(v))
    \/ \E v \in Vals : Start(test_super_class(v))
    \/ \E v \in Vals : Start(test_super_call(v))
    \/ \E v \in Vals : Start(method_name_read(v))
    \/ \E v \in Vals : Start(init_in_block(v))
    \/ \E v \in Vals : Start(nested_init(v))
    \/ \E v \in Vals : Start(init_return(v))
    \/ \E v \in Vals : Start(init_again(v))
    \/ \E v \in Vals : Start(super_this(v))
    \/ \E v1, v2 \in Vals : Start(nested_this(v1, v2))
    \/ \E v \in Vals : Start(closure_counter(v))
    \/ \E early \in BOOLEAN, vg, vb, vc \in Vals : Start(lexical(early, vg, vb, vc))
    \/ \E v1, v2 \in Vals : Start(eq_objects(v1, v2))
    \/ Start(eq_classes)
    \/ \E line1, line2 \in Lines : Start(eq_functions(line1, line2))
    \/ \E v \in Vals : Start(eq_variants(v))
    \/ \E left, right \in Operands : Start(plus_operands(left, right))
    \/ \E vg, vf, vb \in Vals : Start(block_shadow(vg, vf, vb))
    \/ \E v \in Vals : Start(for_count(v))
    \/ \E v \in Vals : Start(assign_undefined(v))
    \/ \E v \in Vals : Start(assign_undefined_in_fun(v))
    \/ Start(read_undefined)
    \/ \E v \in Vals : Start(assign_defined(v))
    \/ \E v \in Vals : Start(return_nested(v))
    \/ \E field \in {"", "m", "n", "z"}, name \in {"m", "n", "z"}, v \in Vals :
          Start(property_read(field, name, v))
    \/ Start(super_outside_class)
    \/ Start(super_without_superclass)
    \/ \E nested \in BOOLEAN : Start(inherit_self(nested))
    \/ Start(class_rebound)
    \/ \E shape \in {"alone", "block", "while"}, v \in Vals :
          Start(return_top_level(shape, v))
    \/ \E init, sub \in BOOLEAN : Start(construct(init, sub))
    \/ \E op \in {"and", "or"}, left, right \in LogicalOperands :
          Start(short_circuit(op, left, right))

\* resolver.run(&mut ast)
Resolve ==
    /\ phase = "parsed"
    /\ \E perm \in Orders(MaxMethods) :
          LET rs == Resolver_run(Resolver_new(1..prog.n, perm), prog.ast)
          IN  /\ depths' = rs.depths
              /\ uses' = rs.uses
              /\ phase' = IF ResolverOk(rs) THEN "resolved" ELSE "resolve_error"
              /\ outcome' = IF ResolverOk(rs) THEN outcome
                            ELSE [s |-> "resolve_error", v |-> StringV(rs.err)]
    /\ UNCHANGED <<prog, pc, heap, front, main>>

\* What Interpreter::run does with the result of a declaration: `?` ends the
\* run with the error, a panic aborts it, Ok goes on to the next declaration.
run_result(r) ==
    /\ heap' = [r.h EXCEPT !.now = 0]
    /\ outcome' = [s |-> r.s, v |-> r.v]
    /\ pc' = IF r.s = "ok" THEN pc + 1 ELSE pc
    /\ phase' = CASE r.s = "ok" -> phase
                  [] r.s = "panic" -> "panic"
                  [] OTHER -> "error"

\* One iteration of the loop of Interpreter::run: visit_declaration on the
\* next declaration.
RunDeclaration(kinds) ==
    /\ phase = "resolved"
    /\ pc <= Len(prog.ast)
    /\ prog.ast[pc].k \in kinds
    /\ \E now \in 0..MaxClock :
          run_result(Interpreter_visit_declaration([heap EXCEPT !.now = now], Globals,
                                                   prog.ast[pc]))
    /\ UNCHANGED <<prog, depths, uses, front, main>>

RunClass == RunDeclaration({"Class"})

RunFunDeclaration == RunDeclaration({"FunDeclaration"})

RunVarDeclaration == RunDeclaration({"VarDeclaration"})

RunStatement ==
    RunDeclaration({"Block", "ExprStatement", "For", "If", "Print", "Return", "While"})

\* Interpreter::run returns Ok(()) after the last declaration.
RunOk ==
    /\ phase = "resolved"
    /\ pc > Len(prog.ast)
    /\ phase' = "done"
    /\ UNCHANGED <<prog, pc, depths, uses, heap, outcome, front, main>>

Next == Resolve \/ RunClass \/ RunFunDeclaration \/ RunVarDeclaration \/ RunStatement \/ RunOk

Spec == Init /\ [][Next]_vars

\* The global frame's binding of a name.
Global(name) == heap.frames[Globals].scope[name]

Finished == phase \in {"done", "error", "panic", "resolve_error"}

----------------------------------------------------------------------------
(* scanner.rs.  The source is a sequence of characters and a token's       *)
(* content is the sequence of the characters it was made of; current       *)
(* counts the characters consumed.  A scanner function returns the scanner *)
(* it leaves, Ok or a panic, and its value.                                *)

\* The source has at most MaxSource characters.
MaxSource == 4

\* A call is written with at most MaxArgs arguments.
MaxArgs == 2

\* A source handed to the parser has at most MaxSnippets snippets.
MaxSnippets == 2

\* The characters the sources are written with.
Chars == {"1", ".", "/", "a", ";", "\n"}

\* The '\0' that peek and peek_next return at the end of the source.
NUL == "NUL"

is_digit(c) == c \in {"0", "1", "2", "3", "4", "5", "6", "7", "8", "9"}

is_alpha(c) ==
    c \in {"a", "b", "c", "d", "e", "f", "g", "h", "i", "j", "k", "l", "m",
           "n", "o", "p", "q", "r", "s", "t", "u", "v", "w", "x", "y", "z",
           "A", "B", "C", "D", "E", "F", "G", "H", "I", "J", "K", "L", "M",
           "N", "O", "P", "Q", "R", "S", "T", "U", "V", "W", "X", "Y", "Z", "_"}

is_alpha_numeric(c) == is_digit(c) \/ is_alpha(c)

\* The keywords map of Scanner::new.
Keyword(content) ==
    CASE content = <<"a", "n", "d">> -> "And"
      [] content = <<"c", "l", "a", "s", "s">> -> "Class"
      [] content = <<"e", "l", "s", "e">> -> "Else"
      [] content = <<"f", "a", "l", "s", "e">> -> "False"
      [] content = <<"f", "o", "r">> -> "For"
      [] content = <<"f", "u", "n">> -> "Fun"
      [] content = <<"i", "f">> -> "If"
      [] content = <<"n", "i", "l">> -> "Nil"
      [] content = <<"o", "r">> -> "Or"
      [] content = <<"p", "r", "i", "n", "t">> -> "Print"
      [] content = <<"r", "e", "t", "u", "r", "n">> -> "Return"
      [] content = <<"s", "u", "p", "e", "r">> -> "Super"
      [] content = <<"t", "h", "i", "s">> -> "This"
      [] content = <<"t", "r", "u", "e">> -> "True"
      [] content = <<"v", "a", "r">> -> "Var"
      [] content = <<"w", "h", "i", "l", "e">> -> "While"
      [] OTHER -> "Identifier"

Scanner_new(source) ==
    [source |-> source, current |-> 0, line |-> 0, start |-> 0,
     tokens |-> <<>>, status |-> "scanning"]

Scanner_is_at_end(sc) == sc.current >= Len(sc.source)

\* advance: the character it returns is the one peek gave before it.
Scanner_advance(sc) == [sc EXCEPT !.current = @ + 1]

Scanner_peek(sc) ==
    IF Scanner_is_at_end(sc) THEN NUL ELSE sc.source[sc.current + 1]

\* equal: whether the next character is the expected one; the caller
\* advances when it is.
Scanner_equal(sc, expected) ==
    ~Scanner_is_at_end(sc) /\ sc.source[sc.current + 1] = expected

Scanned(sc, value) == [sc |-> sc, s |-> "ok", v |-> value]

\* chars().nth(current + 1).unwrap() panics on the last character.
peek_next(sc) ==
    IF Scanner_is_at_end(sc) THEN Scanned(sc, NUL)
    ELSE IF sc.current + 2 > Len(sc.source) THEN [sc |-> sc, s |-> "panic", v |-> NUL]
    ELSE Scanned(sc, sc.source[sc.current + 2])

RECURSIVE string(_, _)
string(sc, s) ==
    IF Scanner_peek(sc) # "\"" /\ ~Scanner_is_at_end(sc)
    THEN string([Scanner_advance(sc) EXCEPT
                     !.line = IF Scanner_peek(sc) = "\n" THEN @ + 1 ELSE @],
                Append(s, Scanner_peek(sc)))
    ELSE IF Scanner_is_at_end(sc) THEN Scanned(sc, s)
    ELSE Scanned(Scanner_advance(sc), s)

RECURSIVE digits(_, _)
\* while is_digit(self.peek()) { s.push(self.advance()); }
digits(sc, s) ==
    IF is_digit(Scanner_peek(sc))
    THEN digits(Scanner_advance(sc), Append(s, Scanner_peek(sc)))
    ELSE Scanned(sc, s)

\* number with the `.` taken whenever it follows the digits.
number_trailing_dot(sc) ==
    Let(digits(sc, <<>>), LAMBDA d :
        IF Scanner_peek(d.sc) = "."
        THEN digits(Scanner_advance(d.sc), Append(d.v, "."))
        ELSE digits(d.sc, d.v))

number(sc) ==
    Let(digits(sc, <<>>), LAMBDA d :
        IF Scanner_peek(d.sc) = "."
        THEN Try(peek_next(d.sc), LAMBDA next :
                 IF is_digit(next.v)
                 THEN digits(Scanner_advance(d.sc), Append(d.v, "."))
                 ELSE digits(d.sc, d.v))
        ELSE digits(d.sc, d.v))

RECURSIVE identifier(_, _)
identifier(sc, s) ==
    IF is_alpha_numeric(Scanner_peek(sc))
    THEN identifier(Scanner_advance(sc), Append(s, Scanner_peek(sc)))
    ELSE Scanned(sc, s)

RECURSIVE comment(_)
\* while self.peek() != '\n' && !self.is_at_end() { self.advance(); }
comment(sc) ==
    IF Scanner_peek(sc) # "\n" /\ ~Scanner_is_at_end(sc)
    THEN comment(Scanner_advance(sc))
    ELSE sc

Token(sc, kind, content) ==
    Scanned(sc, [line |-> sc.line, kind |-> kind, content |-> content])

\* A character that starts a one- or two-character operator: the kind with
\* and without a following `=`.
operator(sc, with_equal, alone) ==
    IF Scanner_equal(sc, "=") THEN Token(Scanner_advance(sc), with_equal, <<>>)
    ELSE Token(sc, alone, <<>>)

\* scan_token after c = self.advance()
scan_char(sc, c) ==
    CASE c = "(" -> Token(sc, "LeftParen", <<>>)
      [] c = ")" -> Token(sc, "RightParen", <<>>)
      [] c = "{" -> Token(sc, "LeftBrace", <<>>)
      [] c = "}" -> Token(sc, "RightBrace", <<>>)
      [] c = "," -> Token(sc, "Comma", <<>>)
      [] c = "." -> Token(sc, "Dot", <<>>)
      [] c = "-" -> Token(sc, "Minus", <<>>)
      [] c = "+" -> Token(sc, "Plus", <<>>)
      [] c = ";" -> Token(sc, "Semicolon", <<>>)
      [] c = "*" -> Token(sc, "Star", <<>>)
      [] c = "/" -> IF Scanner_equal(sc, "/")
                    THEN Token(comment(Scanner_advance(sc)), "Comment", <<>>)
                    ELSE Token(sc, "Slash", <<>>)
      [] c = "!" -> operator(sc, "BangEqual", "Bang")
      [] c = "=" -> operator(sc, "EqualEqual", "Equal")
      [] c = "<" -> operator(sc, "LessEqual", "Less")
      [] c = ">" -> operator(sc, "GreaterEqual", "Greater")
      [] c \in {" ", "\r", "\t"} -> Token(sc, "WhiteSpace", <<>>)
      [] c = "\n" -> Token([sc EXCEPT !.line = @ + 1], "WhiteSpace", <<>>)
      [] c = "\"" -> Let(string(sc, <<>>), LAMBDA s : Token(s.sc, "StringT", s.v))
      [] is_digit(c) -> Try(number(sc), LAMBDA n : Token(n.sc, "Number", <<c>> \o n.v))
      [] is_alpha(c) ->
            Let(identifier(sc, <<c>>), LAMBDA s : Token(s.sc, Keyword(s.v), s.v))
      [] OTHER -> Token(sc, "Error", <<>>)

scan_token(sc) == scan_char(Scanner_advance(sc), Scanner_peek(sc))

\* What scan_tokens does with the token: every token but WhiteSpace is
\* pushed; a panic ends the scan.
push_back(r) ==
    IF r.s = "panic" THEN [r.sc EXCEPT !.status = "panic"]
    ELSE IF r.v.kind = "WhiteSpace" THEN r.sc
    ELSE [r.sc EXCEPT !.tokens = Append(@, r.v)]

\* Nothing is resolved or evaluated while the front end is looked at.
NotStarted ==
    /\ prog = Program("", <<>>, 0, <<>>)
    /\ phase = "none"
    /\ pc = 1
    /\ depths = <<>>
    /\ uses = <<>>
    /\ heap = Interpreter_new
    /\ outcome = [s |-> "ok", v |-> Nil]

ScanInit ==
    /\ \E n \in 0..MaxSource : \E source \in [1..n -> Chars] :
          scanner = Scanner_new(source)
    /\ parser = NoParser
    /\ main = NoMain
    /\ NotStarted

\* One iteration of the loop of scan_tokens.
ScanToken ==
    /\ scanner.status = "scanning"
    /\ ~Scanner_is_at_end(scanner)
    /\ scanner' = push_back(scan_token([scanner EXCEPT !.start = scanner.current]))
    /\ UNCHANGED <<back, parser, main>>

\* scan_tokens returns the tokens.
ScanReturn ==
    /\ scanner.status = "scanning"
    /\ Scanner_is_at_end(scanner)
    /\ scanner' = [scanner EXCEPT !.status = "done"]
    /\ UNCHANGED <<back, parser, main>>

ScanNext == ScanToken \/ ScanReturn

ScanSpec == ScanInit /\ [][ScanNext]_vars

----------------------------------------------------------------------------
(* parser.rs: the recursive-descent parser.  A parser is its queue of      *)
(* tokens and the token consumed last; a parsing function returns the      *)
(* parser it leaves with "ok" and the node, or with "err" and the message. *)
(* The content of a token handed to the parser is written as one string.   *)

NoToken == [line |-> 0, kind |-> "None", content |-> ""]

Parser_new(tokens) == [tokens |-> tokens, previous |-> NoToken]

Parser_is_at_end(p) == Len(p.tokens) = 0

Parser_peek(p) == p.tokens[1]

Parser_advance(p) ==
    IF Len(p.tokens) > 0
    THEN [p EXCEPT !.previous = Head(p.tokens), !.tokens = Tail(p.tokens)]
    ELSE p

check(p, t) == IF Parser_is_at_end(p) THEN FALSE ELSE Parser_peek(p).kind = t

\* Whether equal finds one of the kinds; the caller advances when it does.
Parser_equal(p, types) == \E t \in types : check(p, t)

Parsed(p, node) == [p |-> p, s |-> "ok", v |-> node]

ParseErr_new(p, token, message) ==
    [p |-> p, s |-> "err", v |-> [line |-> token.line, message |-> message]]

\* error consumes a token; previous() unwraps the token consumed last.
Parser_error(p, message) ==
    IF Parser_advance(p).previous = NoToken
    THEN [p |-> Parser_advance(p), s |-> "panic", v |-> "unwrap on None"]
    ELSE ParseErr_new(Parser_advance(p), Parser_advance(p).previous, message)

\* The value is the token consumed, which previous() gives the caller.
consume(p, token_kind, message) ==
    IF check(p, token_kind) THEN Parsed(Parser_advance(p), Parser_peek(p))
    ELSE Parser_error(p, message)

RECURSIVE synchronize_loop(_)
synchronize_loop(p) ==
    IF Parser_is_at_end(p) THEN p
    ELSE IF p.previous.kind = "Semicolon" THEN p
    ELSE IF Parser_peek(p).kind \in
            {"Class", "Fun", "Var", "For", "If", "While", "Print", "Return"}
    THEN p
    ELSE synchronize_loop(Parser_advance(p))

synchronize(p) == synchronize_loop(Parser_advance(p))

\* The spelling under which the nodes of the tree hold an operator's kind.
Symbol(kind) ==
    CASE kind = "Bang" -> "!" [] kind = "Minus" -> "-" [] kind = "Plus" -> "+"
      [] kind = "Slash" -> "/" [] kind = "Star" -> "*"
      [] kind = "Greater" -> ">" [] kind = "GreaterEqual" -> ">="
      [] kind = "Less" -> "<" [] kind = "LessEqual" -> "<="
      [] kind = "BangEqual" -> "!=" [] kind = "EqualEqual" -> "=="
      [] kind = "And" -> "and" [] kind = "Or" -> "or"

\* The operators each level of binary expressions loops on.
Operators(level) ==
    CASE level = "factor" -> {"Slash", "Star"}
      [] level = "term" -> {"Minus", "Plus"}
      [] level = "comparison" -> {"Greater", "GreaterEqual", "Less", "LessEqual"}
      [] level = "equality" -> {"BangEqual", "EqualEqual"}
      [] level = "and" -> {"And"}
      [] level = "or" -> {"Or"}

new_binary(left, token, right) ==
    IF token.kind \in {"And", "Or"}
    THEN Logical(left, Symbol(token.kind), right)
    ELSE Binary(left, Symbol(token.kind), right)

RECURSIVE expression(_), assignment(_), Parser_or(_), Parser_and(_),
          equality(_), comparison(_), term(_), factor(_), unary(_), call(_),
          call_loop(_, _), Parser_finish_call(_, _), arguments(_, _),
          primary(_), binary_loop(_, _, _), right_operand(_, _)

expression(p) == assignment(p)

primary(p) ==
    IF Parser_equal(p, {"False", "True", "Nil", "Number", "StringT"})
    THEN Parsed(Parser_advance(p), Literal(Parser_peek(p)))
    ELSE IF Parser_equal(p, {"Identifier"})
    THEN Parsed(Parser_advance(p), Variable(0, Parser_peek(p).content))
    ELSE IF Parser_equal(p, {"LeftParen"})
    THEN Try(expression(Parser_advance(p)), LAMBDA expr :
         Try(consume(expr.p, "RightParen", "Expected ')' after expression."),
             LAMBDA paren : Parsed(paren.p, Grouping(expr.v))))
    ELSE IF Parser_equal(p, {"This"})
    THEN Parsed(Parser_advance(p), This(0))
    ELSE IF Parser_equal(p, {"Super"})
    THEN Try(consume(Parser_advance(p), "Dot", "Expect '.' after 'super'."),
             LAMBDA dot :
         Try(consume(dot.p, "Identifier", "Expected identifier after '.'"),
             LAMBDA method : Parsed(method.p, Super(0, method.v.content))))
    ELSE Parser_error(p, "Expected expression.")

\* The loop of call, entered with the expression parsed so far.
call_loop(p, expr) ==
    IF Parser_equal(p, {"LeftParen"})
    THEN Try(Parser_finish_call(Parser_advance(p), expr), LAMBDA r :
             call_loop(r.p, r.v))
    ELSE IF Parser_equal(p, {"Dot"})
    THEN Try(consume(Parser_advance(p), "Identifier",
                     "Expected property name after '.'."), LAMBDA token :
             IF Parser_equal(token.p, {"Equal"})
             THEN Try(expression(Parser_advance(token.p)), LAMBDA value :
                      call_loop(value.p, Set(expr, token.v.content, value.v)))
             ELSE call_loop(token.p, Get(expr, token.v.content)))
    ELSE Parsed(p, expr)

call(p) == Try(primary(p), LAMBDA expr : call_loop(expr.p, expr.v))

\* The loop of finish_call: it is left when a comma follows the argument.
arguments(p, args) ==
    IF Len(args) >= 255 THEN Parser_error(p, "Can't have more than 255 arguments")
    ELSE Try(expression(p), LAMBDA arg :
             IF Parser_equal(arg.p, {"Comma"})
             THEN Parsed(Parser_advance(arg.p), Append(args, arg.v))
             ELSE arguments(arg.p, Append(args, arg.v)))

Parser_finish_call(p, callee) ==
    Try(IF ~check(p, "RightParen") THEN arguments(p, <<>>) ELSE Parsed(p, <<>>),
        LAMBDA args :
    Try(consume(args.p, "RightParen",
                "Expected closing paren to follow argument list"),
        LAMBDA paren : Parsed(paren.p, Call(callee, args.v))))

unary(p) ==
    IF Parser_equal(p, {"Bang", "Minus"})
    THEN Try(unary(Parser_advance(p)), LAMBDA right :
             Parsed(right.p, Unary(Symbol(Parser_peek(p).kind), right.v)))
    ELSE call(p)

\* The right operand of each level's operators.
right_operand(p, level) ==
    CASE level \in {"factor", "term"} -> factor(p)
      [] level \in {"comparison", "equality"} -> comparison(p)
      [] level \in {"and", "or"} -> Parser_and(p)

\* The while loop of a level, entered with the expression parsed so far.
binary_loop(p, expr, level) ==
    IF Parser_equal(p, Operators(level))
    THEN Try(right_operand(Parser_advance(p), level), LAMBDA right :
             binary_loop(right.p, new_binary(expr, Parser_peek(p), right.v), level))
    ELSE Parsed(p, expr)

factor(p) == Try(unary(p), LAMBDA expr : binary_loop(expr.p, expr.v, "factor"))

term(p) == Try(factor(p), LAMBDA expr : binary_loop(expr.p, expr.v, "term"))

comparison(p) ==
    Try(term(p), LAMBDA expr : binary_loop(expr.p, expr.v, "comparison"))

equality(p) ==
    Try(comparison(p), LAMBDA expr : binary_loop(expr.p, expr.v, "equality"))

Parser_and(p) ==
    Try(equality(p), LAMBDA expr : binary_loop(expr.p, expr.v, "and"))

Parser_or(p) ==
    Try(Parser_and(p), LAMBDA expr : binary_loop(expr.p, expr.v, "or"))

assignment(p) ==
    Try(Parser_or(p), LAMBDA expr :
        IF Parser_equal(expr.p, {"Equal"})
        THEN Try(assignment(Parser_advance(expr.p)), LAMBDA rvalue :
                 IF expr.v.k = "Variable"
                 THEN Parsed(rvalue.p, Assign(0, expr.v.name, rvalue.v))
                 ELSE Parser_error(rvalue.p, "Invalid assignment target."))
        ELSE expr)

RECURSIVE statement(_), declaration(_), block(_, _), if_statement(_),
          while_statement(_), Parser_for_statement(_), function(_, _),
          parameters(_, _), class(_), class_methods(_, _)

consume_semicolon(p) == consume(p, "Semicolon", "Semicolon must follow statement.")

if_statement(p) ==
    Try(equality(p), LAMBDA cond :
    Try(statement(cond.p), LAMBDA true_branch :
        IF Parser_equal(true_branch.p, {"Else"})
        THEN Try(statement(Parser_advance(true_branch.p)), LAMBDA else_branch :
                 Parsed(else_branch.p, If(cond.v, true_branch.v, else_branch.v)))
        ELSE Parsed(true_branch.p, If(cond.v, true_branch.v, NoExpr))))

while_statement(p) ==
    Try(consume(p, "LeftParen", "Expected '(' following 'while'"), LAMBDA left :
    Try(equality(left.p), LAMBDA cond :
    Try(consume(cond.p, "RightParen", "Expected ')' following condition"),
        LAMBDA right :
    Try(statement(right.p), LAMBDA body :
        Parsed(body.p, While(cond.v, body.v))))))

\* The loop of block, entered with the declarations parsed so far.
block(p, declarations) ==
    IF Parser_equal(p, {"RightBrace"}) THEN Parsed(Parser_advance(p), declarations)
    ELSE Try(declaration(p), LAMBDA new_element :
             block(new_element.p, Append(declarations, new_element.v)))

print_statement(p) ==
    Try(expression(p), LAMBDA expr :
    Try(consume_semicolon(expr.p), LAMBDA semicolon :
        Parsed(semicolon.p, PrintStmt(expr.v))))

expr_statement(p) ==
    Try(expression(p), LAMBDA value :
    Try(consume_semicolon(value.p), LAMBDA semicolon :
        Parsed(semicolon.p, value.v)))

var_declaration(p) ==
    Try(consume(p, "Identifier", "Expected variable name."), LAMBDA name :
    Try(IF Parser_equal(name.p, {"Equal"})
        THEN expression(Parser_advance(name.p))
        ELSE Parsed(name.p, NoExpr), LAMBDA initializer :
    Try(consume_semicolon(initializer.p), LAMBDA semicolon :
        Parsed(semicolon.p, VarDeclaration(name.v.content, initializer.v)))))

\* The first clause of a for statement.
for_initializer(p) ==
    IF Parser_equal(p, {"Semicolon"}) THEN Parsed(Parser_advance(p), NoExpr)
    ELSE IF Parser_equal(p, {"Var"}) THEN var_declaration(Parser_advance(p))
    ELSE expr_statement(p)

Parser_for_statement(p) ==
    Try(consume(p, "LeftParen", "Expected '(' following 'for'"), LAMBDA left :
    Try(for_initializer(left.p), LAMBDA initializer :
    Try(IF ~check(initializer.p, "Semicolon") THEN expression(initializer.p)
        ELSE Parsed(initializer.p, NoExpr), LAMBDA cond :
    Try(consume_semicolon(cond.p), LAMBDA semicolon :
    Try(expression(semicolon.p), LAMBDA increment :
    Try(consume(increment.p, "RightParen", "Expected ')' following condition"),
        LAMBDA right :
    Try(statement(right.p), LAMBDA body :
        Parsed(body.p, For(initializer.v, cond.v, increment.v, body.v)))))))))

return_statement(p) ==
    Try(IF ~check(p, "Semicolon") THEN expression(p) ELSE Parsed(p, NoExpr),
        LAMBDA value :
    Try(consume(value.p, "Semicolon", "Expected semicolon after 'return'"),
        LAMBDA semicolon : Parsed(semicolon.p, Return(value.v))))

statement(p) ==
    IF Parser_equal(p, {"Print"}) THEN print_statement(Parser_advance(p))
    ELSE IF Parser_equal(p, {"LeftBrace"})
    THEN Try(block(Parser_advance(p), <<>>), LAMBDA declarations :
             Parsed(declarations.p, Block(declarations.v)))
    ELSE IF Parser_equal(p, {"If"}) THEN if_statement(Parser_advance(p))
    ELSE IF Parser_equal(p, {"While"}) THEN while_statement(Parser_advance(p))
    ELSE IF Parser_equal(p, {"For"}) THEN Parser_for_statement(Parser_advance(p))
    ELSE IF Parser_equal(p, {"Return"}) THEN return_statement(Parser_advance(p))
    ELSE Try(expr_statement(p), LAMBDA expr : Parsed(expr.p, ExprStatement(expr.v)))

\* The loop of function over the parameter list.
parameters(p, params) ==
    Try(consume(p, "Identifier", "Expected parameter name."), LAMBDA name :
        IF Len(params) >= 255
        THEN Parser_error(name.p, "Can't have more than 255 parameters")
        ELSE IF Parser_equal(name.p, {"Comma"})
        THEN parameters(Parser_advance(name.p), Append(params, name.v.content))
        ELSE Parsed(name.p, Append(params, name.v.content)))

function(p, s) ==
    Try(consume(p, "Identifier", <<"Expected name.", s>>), LAMBDA name :
    Try(consume(name.p, "LeftParen", <<"Expect '(' after name.", s>>), LAMBDA left :
    Try(IF ~check(left.p, "RightParen") THEN parameters(left.p, <<>>)
        ELSE Parsed(left.p, <<>>), LAMBDA params :
    Try(consume(params.p, "RightParen", "Expected ')' to follow '('"), LAMBDA right :
    Try(consume(right.p, "LeftBrace", <<"Expected '{' before body", s>>),
        LAMBDA brace :
    Try(block(brace.p, <<>>), LAMBDA body :
        Parsed(body.p, FunDeclaration(0, name.v.content, name.v.line,
                                      params.v, body.v))))))))

\* methods.insert(name, function): a method replaces one of the same name.
insert_method(methods, f) ==
    IF \E i \in 1..Len(methods) : methods[i].name = f.name
    THEN [i \in 1..Len(methods) |-> IF methods[i].name = f.name THEN f ELSE methods[i]]
    ELSE Append(methods, f)

\* The loop of class over the methods.
class_methods(p, methods) ==
    IF ~Parser_is_at_end(p) /\ ~check(p, "RightBrace")
    THEN Try(function(p, "method"), LAMBDA f :
             class_methods(f.p, insert_method(methods, f.v)))
    ELSE Parsed(p, methods)

class(p) ==
    Try(consume(p, "Identifier", "Expected class name"), LAMBDA name :
    Try(IF Parser_equal(name.p, {"Less"})
        THEN Try(consume(Parser_advance(name.p), "Identifier", "Expected class name."),
                 LAMBDA super : Parsed(super.p, Variable(0, super.v.content)))
        ELSE Parsed(name.p, NoExpr), LAMBDA superclass :
    Try(consume(superclass.p, "LeftBrace", "Expected left brace"), LAMBDA left :
    Try(class_methods(left.p, <<>>), LAMBDA methods :
    Try(consume(methods.p, "RightBrace", "Expected right brace."), LAMBDA right :
        Parsed(right.p, Class(name.v.content, superclass.v, methods.v)))))))

\* declaration with an empty statement: at a semicolon it returns Ok and
\* leaves the semicolon in the queue.
declaration_empty(p) ==
    IF check(p, "Semicolon") THEN Parsed(p, NoExpr)
    ELSE IF Parser_equal(p, {"Class"}) THEN class(Parser_advance(p))
    ELSE IF Parser_equal(p, {"Var"}) THEN var_declaration(Parser_advance(p))
    ELSE IF Parser_equal(p, {"Fun"}) THEN function(Parser_advance(p), "function")
    ELSE statement(p)

declaration(p) ==
    IF Parser_equal(p, {"Class"}) THEN class(Parser_advance(p))
    ELSE IF Parser_equal(p, {"Var"}) THEN var_declaration(Parser_advance(p))
    ELSE IF Parser_equal(p, {"Fun"}) THEN function(Parser_advance(p), "function")
    ELSE statement(p)

\* What parse does with the result of declaration: the declaration is
\* pushed, or the error is reported and the parser synchronizes.
parse_result(r) ==
    IF r.s = "ok" THEN [r.p EXCEPT !.declarations = Append(@, r.v)]
    ELSE IF r.s = "panic" THEN [r.p EXCEPT !.status = "panic"]
    ELSE [synchronize(r.p) EXCEPT !.had_error = TRUE, !.reports = Append(@, r.v)]

(* Token queues to parse: a source is a sequence of snippets, each with    *)
(* the declaration the grammar reads in it (NoExpr for a faulty one).      *)

Tok(kind, content) == [line |-> 0, kind |-> kind, content |-> content]

Word(kind) == Tok(kind, "")

Ident(name) == Tok("Identifier", name)

Digit(n) == Tok("Number", ToString(n))

Snippet(kind, tokens, ast) == [kind |-> kind, tokens |-> tokens, ast |-> ast]

\* for (init?; cond?; incr?) x;  with init one of "none", "var", "expr".
ForSource(init, cond, incr) ==
    Snippet("for",
        <<Word("For"), Word("LeftParen")>>
        \o (CASE init = "none" -> <<Word("Semicolon")>>
              [] init = "var" -> <<Word("Var"), Ident("i"), Word("Semicolon")>>
              [] init = "expr" -> <<Ident("i"), Word("Semicolon")>>)
        \o (IF cond THEN <<Ident("c")>> ELSE <<>>) \o <<Word("Semicolon")>>
        \o (IF incr THEN <<Ident("n")>> ELSE <<>>)
        \o <<Word("RightParen"), Ident("x"), Word("Semicolon")>>,
        For(CASE init = "none" -> NoExpr
              [] init = "var" -> VarDeclaration("i", NoExpr)
              [] init = "expr" -> Variable(0, "i"),
            IF cond THEN Variable(0, "c") ELSE NoExpr,
            IF incr THEN Variable(0, "n") ELSE NoExpr,
            ExprStatement(Variable(0, "x"))))

RECURSIVE Commas(_, _)
\* The numbers 1..n as argument expressions with a comma between them.
Commas(i, n) ==
    IF i > n THEN <<>>
    ELSE <<Digit(i)>> \o (IF i < n THEN <<Word("Comma")>> ELSE <<>>) \o Commas(i + 1, n)

\* f(1, ..., n);  and, with trailing, f(1, ..., n,);
CallSource(n, trailing) ==
    Snippet(IF trailing THEN "call_trailing" ELSE "call",
        <<Ident("f"), Word("LeftParen")>> \o Commas(1, n)
        \o (IF trailing THEN <<Word("Comma")>> ELSE <<>>)
        \o <<Word("RightParen"), Word("Semicolon")>>,
        IF trailing THEN NoExpr
        ELSE ExprStatement(Call(Variable(0, "f"), [i \in 1..n |-> Literal(Digit(i))])))

\* Faulty statements:  var 1;   var x = ;   1 2;   1 2
Faulty ==
    {Snippet("faulty", <<Word("Var"), Digit(1), Word("Semicolon")>>, NoExpr),
     Snippet("faulty", <<Word("Var"), Ident("x"), Word("Equal"), Word("Semicolon")>>,
             NoExpr),
     Snippet("faulty", <<Digit(1), Digit(2), Word("Semicolon")>>, NoExpr),
     Snippet("faulty", <<Digit(1), Digit(2)>>, NoExpr)}

\* Well-formed declarations:
\*   var y;   print 1;   y;   super.m;
\*   if (1 == 2) print "a"; else { return; }
\*   while (a < 1) a = a + 1 * 2;
\*   fun f(a, b) { return !a or b and nil; }
\*   class A < B { m() { this.x = super.m; } m() { -a.b(); } }
Declarations ==
    {Snippet("var", <<Word("Var"), Ident("y"), Word("Semicolon")>>,
             VarDeclaration("y", NoExpr)),
     Snippet("print", <<Word("Print"), Digit(1), Word("Semicolon")>>,
             PrintStmt(Literal(Digit(1)))),
     Snippet("expression", <<Ident("y"), Word("Semicolon")>>,
             ExprStatement(Variable(0, "y"))),
     Snippet("expression",
             <<Word("Super"), Word("Dot"), Ident("m"), Word("Semicolon")>>,
             ExprStatement(Super(0, "m"))),
     Snippet("if",
        <<Word("If"), Word("LeftParen"), Digit(1), Word("EqualEqual"), Digit(2),
          Word("RightParen"), Word("Print"), Tok("StringT", "a"), Word("Semicolon"),
          Word("Else"), Word("LeftBrace"), Word("Return"), Word("Semicolon"),
          Word("RightBrace")>>,
        If(Grouping(Binary(Literal(Digit(1)), "==", Literal(Digit(2)))),
           PrintStmt(Literal(Tok("StringT", "a"))), Block(<<Return(NoExpr)>>))),
     Snippet("while",
        <<Word("While"), Word("LeftParen"), Ident("a"), Word("Less"), Digit(1),
          Word("RightParen"), Ident("a"), Word("Equal"), Ident("a"), Word("Plus"),
          Digit(1), Word("Star"), Digit(2), Word("Semicolon")>>,
        While(Binary(Variable(0, "a"), "<", Literal(Digit(1))),
              ExprStatement(Assign(0, "a",
                  Binary(Variable(0, "a"), "+",
                         Binary(Literal(Digit(1)), "*", Literal(Digit(2)))))))),
     Snippet("fun",
        <<Word("Fun"), Ident("f"), Word("LeftParen"), Ident("a"), Word("Comma"),
          Ident("b"), Word("RightParen"), Word("LeftBrace"), Word("Return"),
          Word("Bang"), Ident("a"), Word("Or"), Ident("b"), Word("And"), Word("Nil"),
          Word("Semicolon"), Word("RightBrace")>>,
        FunDeclaration(0, "f", 0, <<"a", "b">>,
            <<Return(Logical(Unary("!", Variable(0, "a")), "or",
                             Logical(Variable(0, "b"), "and", Literal(Word("Nil")))))>>)),
     Snippet("class",
        <<Word("Class"), Ident("A"), Word("Less"), Ident("B"), Word("LeftBrace"),
          Ident("m"), Word("LeftParen"), Word("RightParen"), Word("LeftBrace"),
          Word("This"), Word("Dot"), Ident("x"), Word("Equal"), Word("Super"),
          Word("Dot"), Ident("m"), Word("Semicolon"), Word("RightBrace"),
          Ident("m"), Word("LeftParen"), Word("RightParen"), Word("LeftBrace"),
          Word("Minus"), Ident("a"), Word("Dot"), Ident("b"), Word("LeftParen"),
          Word("RightParen"), Word("Semicolon"), Word("RightBrace"),
          Word("RightBrace")>>,
        Class("A", Variable(0, "B"),
            <<FunDeclaration(0, "m", 0, <<>>,
                <<ExprStatement(Unary("-",
                    Call(Get(Variable(0, "a"), "b"), <<>>)))>>)>>))}

\* Sources that end inside a block, a class body or an argument list:
\*   { var y;      class A { m() {      f(1
Unclosed ==
    {Snippet("unclosed",
             <<Word("LeftBrace"), Word("Var"), Ident("y"), Word("Semicolon")>>, NoExpr),
     Snippet("unclosed",
             <<Word("Class"), Ident("A"), Word("LeftBrace"), Ident("m"),
               Word("LeftParen"), Word("RightParen"), Word("LeftBrace")>>, NoExpr),
     Snippet("unclosed", <<Ident("f"), Word("LeftParen"), Digit(1)>>, NoExpr)}

Snippets ==
    {ForSource(init, cond, incr) :
        init \in {"none", "var", "expr"}, cond \in BOOLEAN, incr \in BOOLEAN}
    \cup {CallSource(n, trailing) : n \in 0..MaxArgs, trailing \in BOOLEAN}
    \cup Faulty \cup Unclosed \cup Declarations

RECURSIVE Tokens(_)
\* The tokens of a source.
Tokens(input) ==
    IF input = <<>> THEN <<>> ELSE Head(input).tokens \o Tokens(Tail(input))

\* Parser::new(tokens), with the locals of parse and the source parsed.
ParseInit ==
    /\ \E n \in 0..MaxSnippets : \E input \in [1..n -> Snippets] :
          parser = [tokens |-> Tokens(input), previous |-> NoToken,
                    declarations |-> <<>>, had_error |-> FALSE, reports |-> <<>>,
                    input |-> input, status |-> "parsing"]
    /\ scanner = NoScanner
    /\ main = NoMain
    /\ NotStarted

\* One iteration of the loop of parse.
ParseDeclaration ==
    /\ parser.status = "parsing"
    /\ ~Parser_is_at_end(parser)
    /\ parser' = parse_result(declaration(parser))
    /\ UNCHANGED <<back, scanner, main>>

\* parse returns Err(()) after an error and the tree otherwise.
ParseReturn ==
    /\ parser.status = "parsing"
    /\ Parser_is_at_end(parser)
    /\ parser' = [parser EXCEPT !.status = IF parser.had_error THEN "err" ELSE "ok"]
    /\ UNCHANGED <<back, scanner, main>>

ParseNext == ParseDeclaration \/ ParseReturn

ParseSpec == ParseInit /\ [][ParseNext]_vars

\* parse is not suspended: it returns when it can, and its loop goes on
\* while it can. The second condition is WF_vars(ParseDeclaration) with
\* ENABLED <<ParseDeclaration>>_vars written as the state predicate it
\* equals, the guard of the iteration.
ParseLive ==
    /\ ParseSpec
    /\ WF_vars(ParseReturn)
    /\ \/ []<>~(parser.status = "parsing" /\ ~Parser_is_at_end(parser))
       \/ []<><<ParseDeclaration>>_vars

----------------------------------------------------------------------------
(* main.rs: main, run_file, run_prompt and run.  A source text is given    *)
(* with the tree the front end makes of it (ScanSpec, ParseSpec), or with  *)
(* none when parse returns Err; the resolver and the interpreter then run  *)
(* as above, on the interpreter that run_prompt keeps from line to line.   *)

\* The longest standard input, in lines.
MaxStdin == 2

\* The iterations of the loop of run_prompt that are followed.
MaxPrompts == 4

Source(text, parses, n, ast) ==
    [text |-> text, parses |-> parses, program |-> Program(text, <<>>, n, ast)]

\* What read_line leaves in the line at the end of the input: zero bytes.
Empty == Source("", TRUE, 0, <<>>)

\* The lines of an input and the contents of a file, each line with its
\* newline.
Sources ==
    {Source("var a = 1;", TRUE, 0, <<Var("a", Num(1))>>),
     Source("a = a + 1;", TRUE, 2,
            <<Stmt(Assign(1, "a", Binary(Variable(2, "a"), "+", Num(1))))>>),
     Source("fun f() { return 1; } print f();", TRUE, 1,
            <<Fun(1, "f", <<>>, <<Return(Num(1))>>),
              PrintStmt(Call(Variable(1, "f"), <<>>))>>),
     Source("class A { }", TRUE, 0, <<Class("A", NoExpr, <<>>)>>),
     Source("class A < A { }", TRUE, 1, <<Class("A", Variable(1, "A"), <<>>)>>),
     Source("super.m;", TRUE, 1, <<Stmt(Super(1, "m"))>>),
     Source("var a = ;", FALSE, 0, <<>>)}

\* The file an argument names: its contents, or no such file.
NoFile == [exists |-> FALSE]

File(contents) == [exists |-> TRUE, contents |-> contents]

\* The process at the start of main: env::args, the file system, the
\* standard input and output, and the sources handed to run.
Main_new(args, file, stdin) ==
    [pc |-> "main", args |-> args, file |-> file, stdin |-> stdin,
     out |-> <<>>, ran |-> <<>>, prompts |-> 0, eof |-> FALSE]

println(m, what, of) == [m EXCEPT !.out = Append(@, [what |-> what, of |-> of])]

\* run up to the resolver: the tokens are printed, and after a parse the
\* tree; parse's Err ends run.
run(m, source) ==
    IF source.parses
    THEN [println(println(println(m, "tokens", source.text),
                          "Parsed successfully.", ""),
                  "ast", source.text)
             EXCEPT !.ran = Append(@, source.text), !.pc = "run"]
    ELSE [println(println(m, "tokens", source.text), "Error while parsing.", "")
             EXCEPT !.ran = Append(@, source.text)]

\* read_line: the next line of the input, and Ok(0) with nothing appended
\* at its end.
read_line(m) == IF m.stdin = <<>> THEN Empty ELSE Head(m.stdin)

\* print!(">") and read_line.
prompt(m) ==
    [println(m, ">", "") EXCEPT !.prompts = @ + 1,
                                !.eof = (m.stdin = <<>>),
                                !.stdin = IF @ = <<>> THEN @ ELSE Tail(@)]

MainInit ==
    /\ \E args \in {<<"lox">>, <<"lox", "script">>, <<"lox", "script", "more">>} :
       \E file \in {NoFile} \cup {File(contents) : contents \in Sources} :
       \E n \in 0..MaxStdin : \E stdin \in [1..n -> Sources] :
          main = Main_new(args, file, stdin)
    /\ scanner = NoScanner
    /\ parser = NoParser
    /\ NotStarted

\* main with no argument: run_prompt up to its loop.
RunPrompt ==
    /\ main.pc = "main"
    /\ Len(main.args) = 1
    /\ main' = [println(main, "interactive lox", "") EXCEPT !.pc = "loop"]
    /\ UNCHANGED <<back, front>>

\* main with one argument: run_file, after which main returns.
RunFile ==
    /\ main.pc = "main"
    /\ Len(main.args) = 2
    /\ main' = IF main.file.exists
               THEN [println(main, "contents", main.file.contents.text)
                        EXCEPT !.pc = "exit"]
               ELSE [main EXCEPT !.pc = "panic"]
    /\ UNCHANGED <<back, front>>

\* main with more arguments.
Usage ==
    /\ main.pc = "main"
    /\ Len(main.args) > 2
    /\ main' = [println(main, "Usage: lox [script]", "") EXCEPT !.pc = "exit"]
    /\ UNCHANGED <<back, front>>

\* One iteration of the loop of run_prompt, up to the resolver of run.
Prompt ==
    /\ main.pc = "loop"
    /\ main.prompts < MaxPrompts
    /\ main' = run(prompt(main), read_line(main))
    /\ IF read_line(main).parses
       THEN /\ prog' = read_line(main).program
            /\ phase' = "parsed"
            /\ pc' = 1
            /\ depths' = [i \in 1..prog'.n |-> None]
            /\ uses' = [i \in 1..prog'.n |-> [name |-> "", stack |-> <<>>]]
            /\ outcome' = [s |-> "ok", v |-> Nil]
            /\ UNCHANGED heap
       ELSE UNCHANGED back
    /\ UNCHANGED front

\* run returns to the loop of run_prompt after the resolver's or the
\* interpreter's error is printed; a panic has ended the process.
RunReturn ==
    /\ main.pc = "run"
    /\ phase \in {"done", "error", "resolve_error"}
    /\ main' = [(IF phase = "done" THEN main ELSE println(main, "err", outcome.v.v))
                   EXCEPT !.pc = "loop"]
    /\ UNCHANGED <<back, front>>

MainNext ==
    \/ RunPrompt \/ RunFile \/ Usage \/ Prompt \/ RunReturn
    \/ Resolve \/ RunClass \/ RunFunDeclaration \/ RunVarDeclaration \/ RunStatement
    \/ RunOk

MainSpec == MainInit /\ [][MainNext]_vars

----------------------------------------------------------------------------
(* Properties *)

\* The positions of the evaluator's history that hold an event of one kind.
Events(ev) == {i \in 1..Len(heap.trace) : heap.trace[i].ev = ev}

Event(i) == heap.trace[i]

\* The value a finished run left in a global, as test_interpret reads it.
GlobalIs(name, value) ==
    Has(heap.frames[Globals].scope, name) /\ Global(name) = value

Ran(name) == Finished /\ prog.name = name

\* C1: resolver soundness.  Whatever program the resolver accepted, the
\* evaluator never aborts because Environment::ancestor met a missing parent
\* or get_at / assign_at met a missing key: every node with depth Some(d) is
\* evaluated in a chain with d+1 frames whose d-th ancestor holds the name.
C1_ResolverSound ==
    ~(phase = "panic"
      /\ outcome.v \in {StringV("ancestor"), StringV("get_at"), StringV("assign_at")})

\* The index, from the innermost scope, of the first scope that holds name.
FirstScope(stack, name) ==
    CHOOSE i \in 1..Len(stack) :
        name \in stack[i] /\ \A j \in 1..(i - 1) : name \notin stack[j]

\* C2: a resolved use of a name gets the depth of the FIRST (innermost) scope
\* of the resolver's stack that contains the name.
C2_InnermostScopeWins ==
    \A id \in DOMAIN depths :
        depths[id] # None =>
            depths[id] = FirstScope(uses[id].stack, uses[id].name) - 1

\* C3: test_nesting_function2.  The call of calc_b, whose nested block
\* redeclares `a` and returns it, returns the function-level `a`.
C3_ReturnsFunctionLevelA ==
    Ran("test_nesting_function2") =>
        phase = "done" /\ GlobalIs("b", Number(prog.p[1]))

\* The test's run with different values for the two declarations of `a`.
C3_Witness ==
    /\ phase = "done"
    /\ prog.name = "test_nesting_function2"
    /\ prog.p[1] # prog.p[2]
    /\ GlobalIs("b", Number(prog.p[1]))
    /\ depths[1] = 1

\* C4: every call of a class that defines init evaluates to the object that
\* this very call created.
C4_CallReturnsItsOwnObject ==
    \A i \in Events("construct") : Event(i).value = ObjectV(Event(i).object)

\* C5: every completed call of an initializer, through Class(...) or through
\* obj.init(), evaluates to the `this` it was called with, whether or not
\* its body executed `return;`.
C5_InitializerYieldsThis ==
    \A i \in Events("init") : Event(i).value = Event(i).this

\* C6: super.m yields the superclass's method in an environment that binds
\* `this` to the current instance, and binds nothing in the caller's frame.
C6_SuperBindsThisForMethod ==
    \A i \in Events("super") :
        LET bound == heap.frames[Event(i).function.v.environment].scope
        IN  /\ Event(i).after = Event(i).before
            /\ Has(bound, "this")
            /\ bound["this"] = ObjectV(Event(i).instance)

\* The frames that calls of user functions created.
CallFrames == {Event(i).frame : i \in Events("call")}

RECURSIVE CallFrameOf(_)
\* The frame of the call whose body is being evaluated in env (0: none).
CallFrameOf(env) ==
    IF env = 0 \/ env \in CallFrames THEN env
    ELSE CallFrameOf(heap.frames[env].parent)

\* C7: a method value obtained by obj.m is bound to obj in a frame of its
\* own, and in every call of that value `this` evaluates to obj.
C7_MethodKeepsThis ==
    \A j \in Events("get_method") :
        LET closure == Event(j).function.v.environment
        IN  /\ Has(heap.frames[closure].scope, "this")
            /\ heap.frames[closure].scope["this"] = ObjectV(Event(j).object)
            /\ \A k \in Events("get_method") :
                  k # j => Event(k).function.v.environment # closure
            /\ \A i \in Events("this") :
                  LET frame == CallFrameOf(Event(i).env)
                  IN  (frame # 0 /\ heap.frames[frame].parent = closure)
                          => Event(i).value = ObjectV(Event(j).object)

\* C8: a function returned from the call that declared it reads and writes
\* that call's locals afterwards, sharing the frame with the call (which
\* wrote `a` after the declaration); two calls of the outer function give
\* closures over separate frames.
C8_ClosureSharesFrame ==
    /\ Ran("closure_counter") =>
          /\ phase = "done"
          /\ GlobalIs("r1", Number(prog.p[1] + 2))
          /\ GlobalIs("r2", Number(prog.p[1] + 3))
          /\ GlobalIs("r3", Number(prog.p[1] + 2))
          /\ Global("c1").v.environment # Global("c2").v.environment
    /\ Ran("test_closure") => phase = "done" /\ GlobalIs("a", Number(prog.p[1]))

\* The counter program after its three calls of the closures.
C8_Witness ==
    /\ phase = "done"
    /\ prog.name = "closure_counter"
    /\ GlobalIs("r2", Number(prog.p[1] + 3))
    /\ GlobalIs("r3", Number(prog.p[1] + 2))
    /\ heap.frames[Global("c1").v.environment].scope["a"] = Number(prog.p[1] + 3)
    /\ heap.frames[Global("c2").v.environment].scope["a"] = Number(prog.p[1] + 2)

\* C9: the three calls of f, one of them from a block with its own x and one
\* after a later `var x` of the enclosing block, all read the binding that
\* the scopes around f's declaration fix: the block's x when it was declared
\* before f, the global x otherwise.
C9_LexicalScoping ==
    Ran("lexical") =>
        /\ phase = "done"
        /\ \A r \in {"r1", "r2", "r3"} :
              GlobalIs(r, Number(IF prog.p[1] = 1 THEN prog.p[3] ELSE prog.p[2]))

\* A run where the global, the block's and the caller's x all differ, for
\* both places of the block's `var x`.
C9_Witness ==
    /\ phase = "done"
    /\ prog.name = "lexical"
    /\ prog.p[2] # prog.p[3] /\ prog.p[3] # prog.p[4] /\ prog.p[2] # prog.p[4]
    /\ prog.p[1] = 1
    /\ GlobalIs("r2", Number(prog.p[3]))
    /\ GlobalIs("r3", Number(prog.p[3]))

\* Identity of two values: the same cell for objects and classes, the same
\* declaration for user functions, the same value otherwise.
Identical(a, b) ==
    /\ a.t = b.t
    /\ CASE a.t \in {"Object", "Class"} -> a.v = b.v
         [] a.t = "Function" -> a.v.declaration.id = b.v.declaration.id
         [] OTHER -> a = b

\* C10: == and != decide by identity on objects, classes and user functions,
\* and values of different variants are unequal.
C10_EqualityIsIdentity ==
    \A i \in Events("eq") :
        Event(i).equal = Identical(Event(i).left, Event(i).right)

\* C11: binary `+` gives the sum of two Numbers and the concatenation, left
\* then right, of two Strings, and is a runtime error for every other pair of
\* operand variants; in every case both operands have been evaluated, the
\* left one first, when the operator is applied (o holds the right operand).
C11_PlusOperands ==
    Ran("plus_operands") =>
        /\ GlobalIs("o", Global("r"))
        /\ IF Global("l").t = "Number" /\ Global("r").t = "Number"
           THEN phase = "done" /\ GlobalIs("c", Number(Global("l").v + Global("r").v))
           ELSE IF Global("l").t = "StringV" /\ Global("r").t = "StringV"
           THEN phase = "done" /\ GlobalIs("c", StringV(Global("l").v \o Global("r").v))
           ELSE /\ phase = "error"
                /\ outcome.s = "err"
                /\ ~Has(heap.frames[Globals].scope, "c")

C11_Witness ==
    /\ Ran("plus_operands")
    /\ Global("l") = StringV("a")
    /\ Global("r") = StringV("b")
    /\ GlobalIs("c", StringV("ab"))
    /\ GlobalIs("o", StringV("b"))

\* C12: a `var x` declared inside a block lives only in the block's frame.
\* After a block that redeclares x and then reads and assigns x, the x of the
\* enclosing function and the x of the global frame have the values they had
\* before the block, and neither frame has gained a name.
C12_BlockVarIsLocal ==
    /\ Ran("block_shadow") =>
          /\ phase = "done"
          /\ GlobalIs("x", Number(prog.p[1]))
          /\ GlobalIs("r", Number(prog.p[2]))
          /\ DOMAIN heap.frames[Globals].scope = {"clock", "x", "f", "r"}
          /\ \A i \in Events("call") : DOMAIN heap.frames[Event(i).frame].scope = {"x"}
    /\ Ran("test_block") =>
          /\ phase = "done"
          /\ GlobalIs("a", Number(1))
          /\ DOMAIN heap.frames[Globals].scope = {"clock", "a"}

\* C13: a for statement runs its initializer once, then its body followed by
\* its increment once for each time the condition evaluates truthy, and stops
\* at the first falsy condition.  With n, c, k and b counting the runs of the
\* initializer, the condition, the increment and the body, and a condition
\* that is truthy v times: n = 1, c = v + 1 and k = b = v; and the loop of
\* test_for leaves 0 + 1 + ... + (n - 1).
C13_ForLoop ==
    /\ Ran("for_count") =>
          /\ phase = "done"
          /\ GlobalIs("n", Number(1))
          /\ GlobalIs("c", Number(prog.p[1] + 1))
          /\ GlobalIs("k", Number(prog.p[1]))
          /\ GlobalIs("b", Number(prog.p[1]))
    /\ Ran("test_for") =>
          /\ phase = "done"
          /\ GlobalIs("j", Number((prog.p[1] * (prog.p[1] - 1)) \div 2))

\* C19: access to an undefined global is an error without side effect.  An
\* assignment to a name with no depth that the global frame does not define,
\* at the top level or inside a function, is a runtime error and the global
\* frame does not gain the name; a read of such a name is a runtime error;
\* after a `var` of that name the assignment and the read succeed.
C19_UndefinedGlobal ==
    /\ Ran("assign_undefined") =>
          /\ phase = "error"
          /\ outcome = [s |-> "err", v |-> StringV("Variable not found in scope.")]
          /\ heap.frames[Globals].scope = Interpreter_new.frames[Globals].scope
    /\ Ran("assign_undefined_in_fun") =>
          /\ phase = "error"
          /\ outcome = [s |-> "err", v |-> StringV("Variable not found in scope.")]
          /\ DOMAIN heap.frames[Globals].scope = {"clock", "f"}
    /\ Ran("read_undefined") =>
          /\ phase = "error"
          /\ outcome = [s |-> "err", v |-> StringV("Variable not found.")]
          /\ heap.frames[Globals].scope = Interpreter_new.frames[Globals].scope
    /\ Ran("assign_defined") =>
          /\ phase = "done"
          /\ GlobalIs("x", Number(prog.p[1]))
          /\ GlobalIs("r", Number(prog.p[1]))

C19_Witness ==
    /\ Ran("assign_undefined")
    /\ depths[1] = None
    /\ phase = "error"
    /\ ~Has(heap.frames[Globals].scope, "x")

\* C20: a return inside any nesting of block, if, while and for statements
\* ends the function body at once: no later statement of the body runs (late
\* stays 0), the innermost call has the returned value, Nil for a bare
\* return, and the caller goes on after the call (after = 1, r = v + 1): the
\* enclosing call is not unwound.
C20_ReturnEndsInnermostCall ==
    Ran("return_nested") =>
        /\ phase = "done"
        /\ GlobalIs("late", Number(0))
        /\ GlobalIs("after", Number(1))
        /\ GlobalIs("r", Number(prog.p[1] + 1))
        /\ GlobalIs("n", Nil)

C20_Witness ==
    /\ Ran("return_nested")
    /\ Cardinality(Events("call")) = 3
    /\ GlobalIs("late", Number(0))
    /\ GlobalIs("r", Number(prog.p[1] + 1))
    /\ GlobalIs("n", Nil)

\* C17: the tokens scan_tokens returns hold no token for whitespace and no
\* token for a `//` line comment.
C17_NoCommentToken ==
    scanner.status = "done" =>
        \A i \in 1..Len(scanner.tokens) :
            scanner.tokens[i].kind \notin {"WhiteSpace", "Comment"}

\* The places of a token's content that hold the character c.
Places(content, c) == {j \in 1..Len(content) : content[j] = c}

\* C18: a `.` after a run of digits belongs to the Number token only when a
\* digit follows it: a Number token's content ends with a digit and holds at
\* most one `.`, which has a digit before and after it; and the scanner
\* does not fail on any source, one that ends with that `.` included.
C18_NumberToken ==
    /\ scanner.status # "panic"
    /\ \A i \in 1..Len(scanner.tokens) :
          scanner.tokens[i].kind = "Number" =>
              /\ Cardinality(Places(scanner.tokens[i].content, ".")) <= 1
              /\ \A j \in Places(scanner.tokens[i].content, ".") :
                    /\ j > 1
                    /\ j < Len(scanner.tokens[i].content)
                    /\ is_digit(scanner.tokens[i].content[j + 1])

\* parse has returned, or ended in a panic.
ParseFinished == parser.status \in {"ok", "err", "panic"}

\* parse returned the tree holding, in order, the declaration written in
\* each snippet of the source.
ParsedAsWritten ==
    /\ parser.status = "ok"
    /\ parser.declarations = [i \in DOMAIN parser.input |-> parser.input[i].ast]

\* Every snippet of the source is of one of the kinds.
SourceOf(kinds) == \A i \in DOMAIN parser.input : parser.input[i].kind \in kinds

\* C14: each of the three clauses of a for header is optional for the parser:
\* a source of for statements with any combination of initializer, condition
\* and increment left out parses successfully, each statement into a For
\* node whose omitted clauses are None.
C14_ForClausesOptional ==
    (ParseFinished /\ SourceOf({"for"})) => ParsedAsWritten

\* C15: a call written with n comma-separated arguments followed by `)`, for
\* every n from 0 on, parses successfully into a Call node holding exactly
\* those n arguments in source order.
C15_CallArguments ==
    (ParseFinished /\ SourceOf({"call"})) =>
        /\ parser.status = "ok"
        /\ \A i \in DOMAIN parser.input :
              /\ i \in DOMAIN parser.declarations
              /\ parser.declarations[i].k = "ExprStatement"
              /\ parser.declarations[i].expr.k = "Call"
              /\ parser.declarations[i].expr.arguments
                    = parser.input[i].ast.expr.arguments

\* C16: after a parse error the parser resumes exactly after the semicolon
\* that ended the faulty statement, or at the first keyword after the
\* offending token: a well-formed declaration that starts there is parsed
\* and not skipped, so a faulty statement followed by one well-formed
\* declaration gives one report and that declaration.
C16_ResumesAfterError ==
    (/\ ParseFinished
     /\ Len(parser.input) = 2
     /\ parser.input[1].kind = "faulty"
     /\ parser.input[2].kind \in {"var", "print", "if", "while", "fun", "class"})
    => /\ Len(parser.reports) = 1
       /\ parser.declarations = <<parser.input[2].ast>>

\* The global holds a method bound from the declaration with the given line.
GlobalIsMethod(name, line) ==
    /\ Has(heap.frames[Globals].scope, name)
    /\ Global(name).t = "Function"
    /\ Global(name).v.declaration.name = prog.p[2]
    /\ Global(name).v.declaration.line = line

\* C21: a property read gives the field of that name when the object has it,
\* also when a class of the object defines a method of that name; otherwise
\* the method of the first class that defines it on the way from the object's
\* class up the superclass chain (the override of B for m, the method of A
\* for n); with no field and no method of that name it is a runtime error.
C21_PropertyRead ==
    Ran("property_read") =>
        IF prog.p[1] = prog.p[2]
        THEN phase = "done" /\ GlobalIs("r", Number(prog.p[3]))
        ELSE IF prog.p[2] = "m" THEN phase = "done" /\ GlobalIsMethod("r", 3)
        ELSE IF prog.p[2] = "n" THEN phase = "done" /\ GlobalIsMethod("r", 2)
        ELSE /\ phase = "error"
             /\ outcome = [s |-> "err", v |-> StringV("Property not found on object.")]
             /\ ~Has(heap.frames[Globals].scope, "r")

C21_Witness ==
    /\ Ran("property_read")
    /\ prog.p[1] = "z"
    /\ prog.p[2] = "n"
    /\ phase = "done"
    /\ GlobalIsMethod("r", 2)

\* C22: every Super node that reaches the evaluator has depth Some(d) with
\* d >= 1: no run, whatever program the parser and the resolver accepted,
\* ends in visit_super unwrapping a depth of None or computing depth - 1
\* from 0; in particular not for `super.m` written outside any class or in a
\* class without superclass.
C22_SuperHasDepth ==
    ~(phase = "panic" /\ outcome.v \in {StringV("unwrap"), StringV("depth - 1")})

RECURSIVE SuperclassChainEnds(_, _)
\* Following superclass from the class reaches a class without superclass
\* within the given number of steps.
SuperclassChainEnds(c, steps) ==
    IF c = 0 THEN TRUE
    ELSE IF steps = 0 THEN FALSE
    ELSE SuperclassChainEnds(heap.classes[c].superclass, steps - 1)

\* C23: in every reachable state of the evaluator the superclass links are
\* acyclic: from every class the chain of superclasses ends at a class
\* without superclass after at most as many steps as there are classes; and
\* a class declaration whose superclass has the name of the class is
\* rejected by the resolver, before anything is executed.
C23_SuperclassAcyclic ==
    /\ \A c \in 1..Len(heap.classes) : SuperclassChainEnds(c, Len(heap.classes))
    /\ prog.name = "inherit_self" /\ phase # "parsed" =>
          /\ phase = "resolve_error"
          /\ heap = Interpreter_new

C23_Witness ==
    /\ Ran("class_rebound")
    /\ phase = "done"
    /\ Len(heap.classes) = 3
    /\ heap.classes[3].superclass = 2
    /\ heap.classes[2].superclass = 1
    /\ Global("A") = ClassV(3)

\* C26: the Return signal never escapes the evaluator: Interpreter::run never
\* returns Err(InterpError::Return(_)), also not for a return statement
\* written outside any function body, alone or in a block or a loop at the
\* top level.
C26_ReturnNeverEscapes ==
    ~(phase = "error" /\ outcome.s = "return")

\* C27: calling a class, with or without an init method, adds no binding to
\* and changes no binding of the frame the class was declared in, nor of the
\* `super` frame of a subclass: `this` is never defined in the global frame,
\* and after `var a = A();` the global frame holds the classes and a, and
\* the `super` frame of a subclass holds `super` only.
C27_ClassCallLeavesFrame ==
    /\ ~Has(heap.frames[Globals].scope, "this")
    /\ Ran("construct") =>
          /\ phase = "done"
          /\ DOMAIN heap.frames[Globals].scope
                = {"clock", "A", "a"} \cup (IF prog.p[2] THEN {"B"} ELSE {})
          /\ prog.p[2] => heap.frames[2].scope = ("super" :> ClassV(1))

\* C28: in a for loop with a condition the condition is evaluated exactly
\* once before each potential iteration: with c counting the evaluations of
\* the condition and b the runs of the body, a finished loop leaves
\* c = b + 1, and c = 1 when the body never ran.
C28_ConditionOncePerIteration ==
    Ran("for_count") =>
        /\ phase = "done"
        /\ Has(heap.frames[Globals].scope, "c")
        /\ Has(heap.frames[Globals].scope, "b")
        /\ Global("c").v = Global("b").v + 1

\* Of the operands of short_circuit true, 0 and "" are truthy, nil and false
\* are not.
Truthy(kind) == kind \in {3, 4, 5}

\* C30: logical operators short-circuit.  The left operand is evaluated
\* first and exactly once (nl = 1, and first = 1 when the right one ran);
\* the right operand is evaluated once if the left one is truthy for `and`,
\* falsy for `or`, and not at all otherwise; the result is the Boolean
\* conjunction / disjunction of the truthiness of the operands.  The tests
\* test_logical_and and test_logical_or leave a = 0 and a = 1.
C30_ShortCircuit ==
    /\ Ran("short_circuit") =>
          /\ phase = "done"
          /\ GlobalIs("nl", Number(1))
          /\ GlobalIs("nr", Number(IF (prog.p[1] = "and") = Truthy(prog.p[2])
                                   THEN 1 ELSE 0))
          /\ GlobalIs("first", Number(IF (prog.p[1] = "and") = Truthy(prog.p[2])
                                      THEN 1 ELSE 0))
          /\ GlobalIs("x", Boolean(IF prog.p[1] = "and"
                                   THEN Truthy(prog.p[2]) /\ Truthy(prog.p[3])
                                   ELSE Truthy(prog.p[2]) \/ Truthy(prog.p[3])))
    /\ Ran("test_logical_and") => phase = "done" /\ GlobalIs("a", Number(0))
    /\ Ran("test_logical_or") => phase = "done" /\ GlobalIs("a", Number(1))

C30_Witness ==
    /\ Ran("short_circuit")
    /\ prog.p = <<"or", 1, 4>>
    /\ GlobalIs("nl", Number(1))
    /\ GlobalIs("nr", Number(1))
    /\ GlobalIs("x", Boolean(TRUE))

\* The parser with the queue cut down to its tokens from the i-th on.
ParserAt(i) == [parser EXCEPT !.tokens = SubSeq(parser.tokens, i, Len(parser.tokens))]

\* An iteration of the loop of block, which is a call of declaration: it ends
\* the loop with an error or removes at least one token.
DeclarationProgress(p) ==
    Let(declaration(p), LAMBDA r : r.s = "ok" => Len(r.p.tokens) < Len(p.tokens))

\* C29: parse terminates on every finite token queue, well-formed or not.
\* Wherever in the queue a declaration starts, also at its end, parsing it
\* ends with an error or removes at least one token (an iteration of the
\* loop of block); every iteration of the loop of parse removes at least one
\* token; and parse returns, also when the input ends inside an unclosed
\* block, class body or argument list.
C29_ParseTerminates ==
    /\ [](\A i \in 1..(Len(parser.tokens) + 1) : DeclarationProgress(ParserAt(i)))
    /\ [][ParseDeclaration => Len(parser'.tokens) < Len(parser.tokens)]_vars
    /\ <>ParseFinished

C29_Witness ==
    /\ parser.status = "err"
    /\ Len(parser.input) = 1
    /\ parser.input[1].kind = "unclosed"
    /\ parser.tokens = <<>>
    /\ Len(parser.reports) = 1

\* C24: invoked with exactly one file argument, the program reads the file
\* and hands its contents to run, and so through the scanner, the parser,
\* the resolver and the interpreter, exactly once: when main has returned,
\* the sources run was called with are the contents of the file.
C24_FileRunOnce ==
    (main.pc = "exit" /\ Len(main.args) = 2) =>
        /\ main.file.exists
        /\ main.ran = <<main.file.contents.text>>

\* C25: the loop of run_prompt ends at the end of the standard input: once a
\* read has returned zero bytes no further prompt is printed and no further
\* line is run.
C25_PromptEndsAtEof ==
    [][main.pc # "none" /\ main.eof =>
           /\ main'.prompts = main.prompts
           /\ main'.ran = main.ran]_vars

====
